---------------------------- MODULE Spec2Model ----------------------------
(***************************************************************************)
(* Model of the SimpleTextReader build tools:                              *)
(*   build-tools/build.py                 VersionManager, Builder          *)
(*   build-tools/splitfont_css2manifest.py  fetch_css, css2manifest        *)
(*                                                                         *)
(* Text is a sequence of tokens (one-character strings, plus a few         *)
(* multi-character literals the regular expressions treat atomically).     *)
(* JSON documents are modelled by their parsed value, files by a record    *)
(* with an "exists" flag.                                                  *)
(***************************************************************************)
EXTENDS Integers, Sequences, FiniteSets, TLC

VARIABLES
    pc,            \* position of the build run (Builder.__init__, build_extensions)
    err,           \* exception that ended the run ("none" while running)
    version_arg,   \* args.version handed to Builder(version_str)
    cur_version,   \* result of get_version
    version,       \* self.version
    today,         \* datetime.now().strftime('%Y-%m-%d')
    linesep,       \* os.linesep of the platform
    versionFile,   \* version.json
    readme,        \* README.md, README_EN.md (bytes on disk)
    manifest,      \* client/manifests/<browser>/manifest.json
    dist,          \* dist/<browser> staging directories
    zip,           \* dist/<browser>.zip archives
    bix,           \* build_extensions: index of the browser being built
    versionFile0,  \* the files as they were before the run
    readme0,
    manifest0,
    cpc,           \* position of the css2manifest call
    cerr,          \* exception raised by css2manifest
    css_url,       \* the stylesheet source: a local path or a URL
    net,           \* what an HTTP GET of the source meets
    css_src,       \* text the source holds (the file, the response body)
    font_family_rename,
    size_adjust,
    css_text,      \* text returned by fetch_css
    blocks,        \* re.findall result
    bi,            \* loop index over blocks
    css_manifest,  \* manifest (list of entries)
    css_patched,   \* patched stylesheet text
    caller,        \* who calls css2manifest: process_css_fonts or another caller
    forceUpdate,   \* process_css_fonts(forceUpdate)
    out_css,       \* client/fonts/{local,remote}-<name>.css of the css_map entry
    fpc,           \* position of the font_subset.py run
    font_call,     \* the script's main block, or subset_font_with_extra_chars
    chars_arg,     \* args.chars, or extra_chars
    missing_files, \* the files of files_to_scan that do not exist
    input_font,    \* client/fonts/<input_font>
    output_font,   \* client/fonts/<output_font>
    needed_chars,  \* the characters handed to the subsetter
    fresult,       \* how the font_subset.py run ended
    args,          \* build.py: the parsed command line (docker, extension, all, deploy)
    trace,         \* build.py: the stages and external commands run so far
    exit_code,     \* build.py: status of the process once it has ended
    docker_ok,     \* build.py: what build_docker returned
    remote         \* the remote host as the deployment command finds it

buildvars == <<pc, err, version_arg, cur_version, version, today, linesep,
               versionFile, readme, manifest, dist, zip, bix,
               versionFile0, readme0, manifest0>>
cssvars == <<cpc, cerr, css_url, net, css_src, font_family_rename, size_adjust, css_text,
             blocks, bi, css_manifest, css_patched, caller, forceUpdate, out_css>>
fontvars == <<fpc, font_call, chars_arg, missing_files, input_font,
              output_font, needed_chars, fresult>>
mainvars == <<args, trace, exit_code, docker_ok, remote>>
vars == <<buildvars, cssvars, fontvars, mainvars>>

-----------------------------------------------------------------------------
(* Bounds of the model *)

\* longest changelog of an initial version document
MaxEntries == 2
\* longest version string enumerated character by character
MaxVerLen == 3
\* number of fragments an initial README is built from
MaxReadmeFrags == 2
\* number of @font-face blocks of a stylesheet
MaxBlocks == 2

-----------------------------------------------------------------------------
(* Strings *)

\* Python's None, where a str is expected (a one-token pseudo string)
NoneVal == <<"<None>">>

DecimalDigits == {"0", "1", "2", "3", "4", "5", "6", "7", "8", "9"}

\* U+00B2 SUPERSCRIPT TWO: str.isdigit() is True, int() raises, \d does not match
SuperscriptTwo == "sup2"

DigitVal(c) ==
    CASE c = "0" -> 0 [] c = "1" -> 1 [] c = "2" -> 2 [] c = "3" -> 3
      [] c = "4" -> 4 [] c = "5" -> 5 [] c = "6" -> 6 [] c = "7" -> 7
      [] c = "8" -> 8 [] c = "9" -> 9

\* str.isdigit()
str_isdigit(s) ==
    /\ Len(s) > 0
    /\ \A i \in 1..Len(s) : s[i] \in DecimalDigits \cup {SuperscriptTwo}

\* str.split('.')
RECURSIVE str_split(_)
str_split(s) ==
    IF \E i \in 1..Len(s) : s[i] = "."
    THEN LET i == CHOOSE k \in 1..Len(s) :
                      s[k] = "." /\ \A j \in 1..(k - 1) : s[j] # "."
         IN  <<SubSeq(s, 1, i - 1)>> \o str_split(SubSeq(s, i + 1, Len(s)))
    ELSE <<s>>

\* int(s) raises ValueError unless this holds (over the model's alphabet)
int_ok(s) == Len(s) > 0 /\ \A i \in 1..Len(s) : s[i] \in DecimalDigits

\* int(s)
RECURSIVE int_of(_)
int_of(s) ==
    IF Len(s) = 0 THEN 0
    ELSE int_of(SubSeq(s, 1, Len(s) - 1)) * 10 + DigitVal(s[Len(s)])

RECURSIVE Concat(_)
Concat(ss) == IF Len(ss) = 0 THEN <<>> ELSE Head(ss) \o Concat(Tail(ss))

Range(f) == {f[x] : x \in DOMAIN f}

\* the least element of a set of positions, 0 for the empty set
MinOr0(S) == IF S = {} THEN 0 ELSE CHOOSE k \in S : \A m \in S : k <= m

-----------------------------------------------------------------------------
(* VersionManager *)

\* validate_version_str: TRUE when neither assert fires
validate_version_str(version_str) ==
    /\ version_str # NoneVal
    /\ \A x \in Range(str_split(version_str)) : str_isdigit(x)

\* the sort key of _sort_changelog: tuple(map(int, key.split('.')))
key_ok(k) == \A x \in Range(str_split(k)) : int_ok(x)
key_tuple(k) == LET p == str_split(k) IN [i \in 1..Len(p) |-> int_of(p[i])]

\* Python's tuple comparison a < b
RECURSIVE tuple_less(_, _)
tuple_less(a, b) ==
    IF Len(b) = 0 THEN FALSE
    ELSE IF Len(a) = 0 THEN TRUE
    ELSE IF Head(a) # Head(b) THEN Head(a) < Head(b)
    ELSE tuple_less(Tail(a), Tail(b))

\* one insertion of the stable descending sort: x goes after every element
\* whose key is not smaller than its own
RECURSIVE insert_desc(_, _)
insert_desc(sorted, x) ==
    IF Len(sorted) = 0 THEN <<x>>
    ELSE IF tuple_less(key_tuple(Head(sorted).key), key_tuple(x.key))
         THEN <<x>> \o sorted
         ELSE <<Head(sorted)>> \o insert_desc(Tail(sorted), x)

RECURSIVE sorted_desc(_)
sorted_desc(items) ==
    IF Len(items) = 0 THEN <<>>
    ELSE insert_desc(sorted_desc(SubSeq(items, 1, Len(items) - 1)),
                     items[Len(items)])

\* _sort_changelog raises ValueError unless every key converts
sort_changelog_ok(changelog) ==
    \A i \in 1..Len(changelog) : key_ok(changelog[i].key)

SortNoOp(changelog) == changelog

\* _sort_changelog: dict(sorted(items, key=..., reverse=True)), a stable sort
sort_changelog(changelog) == sorted_desc(changelog)

\* a changelog entry as created for a new version
new_entry(k, date) ==
    [key |-> k, hasDate |-> TRUE, date |-> date, changes |-> "dict",
     hasZh |-> TRUE, zh |-> <<>>, hasEn |-> TRUE, en |-> <<>>, legacy |-> <<>>]

EnsureDropsLists(e, date) == new_entry(e.key, IF e.hasDate THEN e.date ELSE date)

EnsureDateOnly(e, date) ==
    IF ~e.hasDate THEN [e EXCEPT !.hasDate = TRUE, !.date = date] ELSE e

\* _ensure_changelog_structure
ensure_changelog_structure(e, date) ==
    LET e1 == IF ~e.hasDate THEN [e EXCEPT !.hasDate = TRUE, !.date = date]
              ELSE e
    IN  IF e1.changes # "dict"
        THEN [e1 EXCEPT !.changes = "dict", !.legacy = <<>>,
                        !.hasZh = TRUE, !.zh = <<>>,
                        !.hasEn = TRUE, !.en = <<>>]
        ELSE LET e2 == IF ~e1.hasZh THEN [e1 EXCEPT !.hasZh = TRUE, !.zh = <<>>]
                       ELSE e1
             IN  IF ~e2.hasEn THEN [e2 EXCEPT !.hasEn = TRUE, !.en = <<>>]
                 ELSE e2

HasKey(changelog, k) == \E i \in 1..Len(changelog) : changelog[i].key = k
IndexOf(changelog, k) == CHOOSE i \in 1..Len(changelog) : changelog[i].key = k
Keys(changelog) == {changelog[i].key : i \in 1..Len(changelog)}
EntryOf(changelog, k) == changelog[IndexOf(changelog, k)]

WithVersionOnly(data, v, date) ==
    [data EXCEPT !.version = v, !.hasChangelog = TRUE,
                 !.changelog = <<new_entry(v, date)>>]

WithVersionAlwaysAdds(data, v, date) ==
    LET log == IF data.hasChangelog THEN data.changelog ELSE <<>>
    IN  [data EXCEPT !.version = v, !.hasChangelog = TRUE,
                     !.changelog = Append(log, new_entry(v, date))]

\* lines 62-81 of _update_version_json: the document before sorting
with_version(data, v, date) ==
    LET log == IF data.hasChangelog THEN data.changelog ELSE <<>>
        log1 == IF ~HasKey(log, v)
                THEN Append(log, new_entry(v, date))
                ELSE [log EXCEPT ![IndexOf(log, v)] =
                          ensure_changelog_structure(log[IndexOf(log, v)], date)]
    IN  [data EXCEPT !.version = v, !.hasChangelog = TRUE, !.changelog = log1]


-----------------------------------------------------------------------------
(* README files *)

\* VersionManager.REGULAR_ZH and REGULAR_EN, each one token of text
REGULAR_ZH == "<REGULAR_ZH>"
REGULAR_EN == "SimpleTextReader"

ReadmeFiles == {"README.md", "README_EN.md"}

\* readme_patterns: the product name each file's pattern and template carry
readme_product(f) == IF f = "README.md" THEN REGULAR_ZH ELSE REGULAR_EN

\* open(path, 'r'): universal newlines, "\r\n" and "\r" are read as "\n"
RECURSIVE read_text(_)
read_text(bytes) ==
    LET at == MinOr0({k \in 1..Len(bytes) : bytes[k] = "CR"})
    IN  IF at = 0 THEN bytes
        ELSE SubSeq(bytes, 1, at - 1) \o <<"LF">>
             \o read_text(SubSeq(bytes,
                                 IF at < Len(bytes) /\ bytes[at + 1] = "LF"
                                 THEN at + 2 ELSE at + 1,
                                 Len(bytes)))

\* open(path, 'w'): "\n" is written as os.linesep
RECURSIVE write_text(_, _)
write_text(text, sep) ==
    LET at == MinOr0({k \in 1..Len(text) : text[k] = "LF"})
    IN  IF at = 0 THEN text
        ELSE SubSeq(text, 1, at - 1) \o sep
             \o write_text(SubSeq(text, at + 1, Len(text)), sep)

\* end of the longest run of [\d\.] tokens starting at i (i - 1 if none)
RECURSIVE run_end(_, _)
run_end(text, i) ==
    IF i <= Len(text) /\ text[i] \in DecimalDigits \cup {"."}
    THEN run_end(text, i + 1)
    ELSE i - 1

\* rf'{product} \(v[\d\.]+\)' matched at position i: the index of the match's
\* last token, 0 if there is no match at i
version_tag_end(text, i, product) ==
    IF /\ i + 5 <= Len(text)
       /\ text[i] = product /\ text[i + 1] = " "
       /\ text[i + 2] = "(" /\ text[i + 3] = "v"
       /\ run_end(text, i + 4) >= i + 4
       /\ run_end(text, i + 4) + 1 <= Len(text)
       /\ text[run_end(text, i + 4) + 1] = ")"
    THEN run_end(text, i + 4) + 1
    ELSE 0

\* f'{product}{VERSION_FORMAT}'.format(v)
version_tag(product, v) == <<product, " ", "(", "v">> \o v \o <<")">>

\* re.sub(pattern, template.format(v), content), scanning from position i
RECURSIVE sub_version_from(_, _, _, _)
sub_version_from(text, i, product, v) ==
    LET at == MinOr0({k \in i..Len(text) :
                         version_tag_end(text, k, product) # 0})
    IN  IF at = 0 THEN SubSeq(text, i, Len(text))
        ELSE SubSeq(text, i, at - 1) \o version_tag(product, v)
             \o sub_version_from(text, version_tag_end(text, at, product) + 1,
                                 product, v)

\* lines 108-117: one README read, substituted and written back
updated_readme(bytes, product, v, sep) ==
    write_text(sub_version_from(read_text(bytes), 1, product, v), sep)

-----------------------------------------------------------------------------
(* Manifests and the project tree *)

BROWSERS == <<"Chrome", "Firefox">>
BrowserSet == Range(BROWSERS)

NoManifest == [exists |-> FALSE, hasVersion |-> FALSE, version |-> <<>>,
               other |-> "-"]
NoDoc == [exists |-> FALSE, version |-> <<>>, hasChangelog |-> FALSE,
          changelog |-> <<>>]
NoDir == [exists |-> FALSE, paths |-> {}, manifest |-> NoManifest,
          versionDoc |-> NoDoc]

FirstManifestVersion(mf) ==
    IF \E i \in 1..Len(BROWSERS) :
          ~mf[BROWSERS[i]].exists \/ ~mf[BROWSERS[i]].hasVersion
    THEN [err |-> "FileNotFoundError", val |-> NoneVal]
    ELSE [err |-> "none", val |-> mf[BROWSERS[1]].version]

\* _get_version_from_manifests: the exception raised, or the version returned
get_version_from_manifests(mf) ==
    LET bad == {i \in 1..Len(BROWSERS) :
                    ~mf[BROWSERS[i]].exists \/ ~mf[BROWSERS[i]].hasVersion}
        first == CHOOSE i \in bad : \A j \in bad : i <= j
    IN  IF bad # {}
        THEN [err |-> IF ~mf[BROWSERS[first]].exists THEN "FileNotFoundError"
                      ELSE "KeyError",
              val |-> NoneVal]
        ELSE IF \E i \in 1..Len(BROWSERS) :
                    mf[BROWSERS[i]].version # mf[BROWSERS[1]].version
        THEN [err |-> "AssertionError", val |-> NoneVal]
        ELSE [err |-> "none", val |-> mf[BROWSERS[1]].version]

GetVersionChecksManifests(vf, mf) ==
    IF vf.exists /\ get_version_from_manifests(mf).err = "none"
    THEN [err |-> "none", val |-> vf.version]
    ELSE get_version_from_manifests(mf)

\* get_version(browsers)
get_version(vf, mf) ==
    IF vf.exists THEN [err |-> "none", val |-> vf.version]
    ELSE get_version_from_manifests(mf)

\* the files of the project the packaging looks at (paths from the root)
ProjectTree ==
    { <<"client", "css", "main.css">>,
      <<"client", "fonts", "FZSKBXKK.woff2">>,
      <<"client", "fonts", "KX_47043_14.woff">>,
      <<"client", "fonts", "LXGWWenKaiScreen.woff2">>,
      <<"client", "fonts", "LXGWWenKaiScreen", "result.css">>,
      <<"client", "fonts", "README.md">>,
      <<"client", "images", "icon.png">>,
      <<"client", "app", "main.js">>,
      <<"client", "app", "debug", "debug.js">>,
      <<"client", "app", "README_EN.md">>,
      <<"shared", "utils.js">>,
      <<"shared", "README.md">>,
      <<"server", "app.js">>,
      <<"index.html">>, <<"version.json">>, <<"help.json">>,
      <<"README.md">>, <<"README_EN.md">> }

dirs_to_copy == { <<"client", "css">>, <<"client", "fonts">>,
                  <<"client", "images">>, <<"client", "app">>, <<"shared">> }
files_to_exclude == {"FZSKBXKK.woff2", "KX_47043_14.woff",
                     "LXGWWenKaiScreen.woff2"}
files_to_copy == {"index.html", "version.json", "help.json"}

IsPrefix(d, p) == Len(d) <= Len(p) /\ SubSeq(p, 1, Len(d)) = d

\* copytree(root/dir, dist/dir, ignore=...): the names below dir are filtered
copytree(d) ==
    {p \in ProjectTree :
        /\ IsPrefix(d, p) /\ Len(p) > Len(d)
        /\ \A i \in (Len(d) + 1)..Len(p) : p[i] \notin files_to_exclude}

\* _copy_extension_files: the paths of the staging directory afterwards
copy_extension_files(paths) ==
    LET copied == paths \cup UNION {copytree(d) : d \in dirs_to_copy}
        nodebug == {p \in copied : ~IsPrefix(<<"client", "app", "debug">>, p)}
        files == nodebug \cup {<<f>> : f \in files_to_copy}
    IN  {p \in files : p[Len(p)] # "README.md"}


-----------------------------------------------------------------------------
(* The build run: Builder.__init__ followed by build_extensions *)

Crash(e) == pc' = "crashed" /\ err' = e

\* Builder.__init__ line 182: cur_version = get_version(BROWSERS)
GetVersion ==
    /\ pc = "get_version"
    /\ UNCHANGED <<cssvars, fontvars, mainvars>>
    /\ LET r == get_version(versionFile, manifest)
       IN  IF r.err = "none"
           THEN pc' = "validate" /\ cur_version' = r.val /\ err' = err
           ELSE Crash(r.err) /\ cur_version' = cur_version
    /\ UNCHANGED <<version_arg, version, today, linesep, versionFile, readme,
                   manifest, dist, zip, bix, versionFile0, readme0, manifest0>>

\* Builder.__init__ lines 183-184
ValidateVersion ==
    /\ pc = "validate"
    /\ UNCHANGED <<cssvars, fontvars, mainvars>>
    /\ version' = (IF version_arg # <<>> THEN version_arg ELSE cur_version)
    /\ IF validate_version_str(version')
       THEN pc' = "update_json" /\ err' = err
       ELSE Crash("AssertionError")
    /\ UNCHANGED <<version_arg, cur_version, today, linesep, versionFile,
                   readme, manifest, dist, zip, bix, versionFile0, readme0,
                   manifest0>>

UpdateVersionJsonWritesFirst ==
    /\ pc = "update_json"
    /\ UNCHANGED <<cssvars, fontvars, mainvars>>
    /\ IF ~versionFile.exists
       THEN Crash("FileNotFoundError") /\ versionFile' = versionFile
       ELSE LET data == with_version(versionFile, version, today)
            IN  IF ~sort_changelog_ok(data.changelog)
                THEN Crash("ValueError") /\ versionFile' = data
                ELSE /\ versionFile' =
                          [data EXCEPT !.changelog = sort_changelog(data.changelog)]
                     /\ pc' = "update_readme" /\ err' = err
    /\ UNCHANGED <<version_arg, cur_version, version, today, linesep, readme,
                   manifest, dist, zip, bix, versionFile0, readme0, manifest0>>

\* _update_version_json
UpdateVersionJson ==
    /\ pc = "update_json"
    /\ UNCHANGED <<cssvars, fontvars, mainvars>>
    /\ IF ~versionFile.exists
       THEN Crash("FileNotFoundError") /\ versionFile' = versionFile
       ELSE LET data == with_version(versionFile, version, today)
            IN  IF ~sort_changelog_ok(data.changelog)
                THEN Crash("ValueError") /\ versionFile' = versionFile
                ELSE /\ versionFile' =
                          [data EXCEPT !.changelog = sort_changelog(data.changelog)]
                     /\ pc' = "update_readme" /\ err' = err
    /\ UNCHANGED <<version_arg, cur_version, version, today, linesep, readme,
                   manifest, dist, zip, bix, versionFile0, readme0, manifest0>>

\* _update_readme_files
UpdateReadmeFiles ==
    /\ pc = "update_readme"
    /\ UNCHANGED <<cssvars, fontvars, mainvars>>
    /\ readme' = [f \in ReadmeFiles |->
                    IF readme[f].exists
                    THEN [exists |-> TRUE,
                          content |-> updated_readme(readme[f].content,
                                         readme_product(f), version, linesep)]
                    ELSE readme[f]]
    /\ pc' = "dispatch"
    /\ UNCHANGED <<err, version_arg, cur_version, version, today, linesep,
                   versionFile, manifest, dist, zip, bix, versionFile0, readme0,
                   manifest0>>

\* a second run of Builder(version_str) with the version just applied, on
\* the same date: it finds the files as the first run left them
SetVersionAgain ==
    /\ pc = "dispatch" /\ trace = <<>>
    /\ UNCHANGED <<cssvars, fontvars>>
    /\ version_arg' = version
    /\ pc' = "get_version"
    /\ cur_version' = NoneVal /\ version' = NoneVal
    /\ versionFile0' = versionFile /\ readme0' = readme
    /\ manifest0' = manifest
    /\ trace' = <<"set-version again">>
    /\ UNCHANGED <<err, today, linesep, versionFile, readme, manifest, dist,
                   zip, bix>>
    /\ UNCHANGED <<args, exit_code, docker_ok, remote>>

\* build_extensions lines 262-266: the dist directory is removed
PrepareDist ==
    /\ pc = "build_extensions"
    /\ UNCHANGED <<cssvars, fontvars, mainvars>>
    /\ dist' = [b \in BrowserSet |-> NoDir]
    /\ zip' = [b \in BrowserSet |-> FALSE]
    /\ bix' = 1
    /\ pc' = "sync_manifest"
    /\ UNCHANGED <<err, version_arg, cur_version, version, today, linesep,
                   versionFile, readme, manifest, versionFile0, readme0,
                   manifest0>>

SyncedKeepsVersion(m, v) == m

\* the manifest with its version field overwritten (lines 278-282)
synced(m, v) == [m EXCEPT !.hasVersion = TRUE, !.version = v]

SyncManifestSkipsTarget ==
    /\ pc = "sync_manifest"
    /\ UNCHANGED <<cssvars, fontvars, mainvars>>
    /\ LET b == BROWSERS[bix]
       IN  /\ dist' = [dist EXCEPT ![b] = [NoDir EXCEPT !.exists = TRUE]]
           /\ IF ~manifest[b].exists
              THEN /\ manifest' = manifest /\ err' = err
                   /\ IF bix < Len(BROWSERS)
                      THEN bix' = bix + 1 /\ pc' = "sync_manifest"
                      ELSE bix' = bix /\ pc' = "done"
              ELSE /\ manifest' = [manifest EXCEPT ![b] = synced(manifest[b], version)]
                   /\ pc' = "copy_files" /\ err' = err /\ bix' = bix
    /\ UNCHANGED <<version_arg, cur_version, version, today, linesep,
                   versionFile, readme, zip, versionFile0, readme0,
                   manifest0>>

\* build_extensions lines 269-282: mkdir the staging directory, then load the
\* manifest, set its version and write it back
SyncManifest ==
    /\ pc = "sync_manifest"
    /\ UNCHANGED <<cssvars, fontvars, mainvars>>
    /\ LET b == BROWSERS[bix]
       IN  /\ dist' = [dist EXCEPT ![b] = [NoDir EXCEPT !.exists = TRUE]]
           /\ IF ~manifest[b].exists
              THEN Crash("FileNotFoundError") /\ manifest' = manifest
              ELSE /\ manifest' = [manifest EXCEPT ![b] = synced(manifest[b], version)]
                   /\ pc' = "copy_files" /\ err' = err
    /\ UNCHANGED <<version_arg, cur_version, version, today, linesep,
                   versionFile, readme, zip, bix, versionFile0, readme0,
                   manifest0>>

\* build_extensions lines 285-286: copy2(manifest) and _copy_extension_files
CopyFiles ==
    /\ pc = "copy_files"
    /\ UNCHANGED <<cssvars, fontvars, mainvars>>
    /\ LET b == BROWSERS[bix]
       IN  dist' = [dist EXCEPT ![b] =
                      [exists |-> TRUE,
                       paths |-> copy_extension_files(
                                     dist[b].paths \cup {<<"manifest.json">>}),
                       manifest |-> manifest[b],
                       versionDoc |-> versionFile]]
    /\ pc' = "create_zip"
    /\ UNCHANGED <<err, version_arg, cur_version, version, today, linesep,
                   versionFile, readme, manifest, zip, bix, versionFile0,
                   readme0, manifest0>>

\* build_extensions line 289 and the loop's next iteration
CreateZip ==
    /\ pc = "create_zip"
    /\ UNCHANGED <<cssvars, fontvars, mainvars>>
    /\ zip' = [zip EXCEPT ![BROWSERS[bix]] = TRUE]
    /\ IF bix < Len(BROWSERS)
       THEN bix' = bix + 1 /\ pc' = "sync_manifest"
       ELSE bix' = bix /\ pc' = "done"
    /\ UNCHANGED <<err, version_arg, cur_version, version, today, linesep,
                   versionFile, readme, manifest, dist, versionFile0, readme0,
                   manifest0>>

-----------------------------------------------------------------------------
(* splitfont_css2manifest.py: regular expressions over token text *)

DQ == "\""
SQ == "'"
\* what \s, str.strip() and the like treat as white space
Whitespace == {" ", "LF"}

\* first position >= i of text holding token c, 0 if none
first_of(text, i, c) == MinOr0({k \in i..Len(text) : text[k] = c})

\* first position >= i that holds no white space (Len(text) + 1 if none)
RECURSIVE skip_space(_, _)
skip_space(text, i) ==
    IF i <= Len(text) /\ text[i] \in Whitespace
    THEN skip_space(text, i + 1)
    ELSE i

\* r'@font-face\s*{.*?}' matched at i: the index of the closing brace, or 0
block_end(text, i) ==
    IF text[i] = "@font-face"
       /\ skip_space(text, i + 1) <= Len(text)
       /\ text[skip_space(text, i + 1)] = "{"
    THEN first_of(text, skip_space(text, i + 1) + 1, "}")
    ELSE 0

\* re.findall(r'@font-face\s*{.*?}', css_text, flags=re.DOTALL), from i on
RECURSIVE findall_blocks(_, _)
findall_blocks(text, i) ==
    LET at == MinOr0({k \in i..Len(text) : block_end(text, k) # 0})
    IN  IF at = 0 THEN <<>>
        ELSE <<SubSeq(text, at, block_end(text, at))>>
             \o findall_blocks(text, block_end(text, at) + 1)

\* rf'{prop}:([^;]+);' matched at i: the index of the semicolon, or 0
decl_end(text, i, prop) ==
    IF i + 1 <= Len(text) /\ text[i] = prop /\ text[i + 1] = ":"
       /\ first_of(text, i + 2, ";") >= i + 3
    THEN first_of(text, i + 2, ";")
    ELSE 0

\* r'font-family:"([^"]+)"' matched at i: the index of the closing quote, or 0
family_end(text, i) ==
    IF i + 2 <= Len(text) /\ text[i] = "font-family" /\ text[i + 1] = ":"
       /\ text[i + 2] = DQ
       /\ first_of(text, i + 3, DQ) >= i + 4
    THEN first_of(text, i + 3, DQ)
    ELSE 0

\* r'url\("([^"]+\.woff2)"\)' matched at i: the index of the ")", or 0
woff2_end(text, i) ==
    LET q == first_of(text, i + 2, DQ)
    IN  IF i + 1 <= Len(text) /\ text[i] = "url(" /\ text[i + 1] = DQ
           /\ q >= i + 4 /\ text[q - 1] = ".woff2"
           /\ q + 1 <= Len(text) /\ text[q + 1] = ")"
        THEN q + 1
        ELSE 0

\* r'url\(["\']\./' matched at i: the index of the "./", or 0
dot_url_end(text, i) ==
    IF i + 2 <= Len(text) /\ text[i] = "url(" /\ text[i + 1] \in {DQ, SQ}
       /\ text[i + 2] = "./"
    THEN i + 2
    ELSE 0

\* names of the three patterns that are no property declaration:
\* r'font-family:"([^"]+)"', r'url\("([^"]+\.woff2)"\)', r'url\(["\']\./'
FamilyPattern == "re:font-family"
Woff2Pattern == "re:url-woff2"
DotUrlPattern == "re:url-dot"

\* the patterns used with re.search and re.sub: at i, the index of the
\* match's last token, or 0 (any other pat is a property name)
match_end(text, i, pat) ==
    CASE pat = FamilyPattern -> family_end(text, i)
      [] pat = Woff2Pattern -> woff2_end(text, i)
      [] pat = DotUrlPattern -> dot_url_end(text, i)
      [] OTHER -> decl_end(text, i, pat)

\* re.search: the leftmost position >= i where pat matches, 0 if none
search_from(text, i, pat) ==
    MinOr0({k \in i..Len(text) : match_end(text, k, pat) # 0})

\* re.sub: every non-overlapping match from i on replaced by repl
RECURSIVE sub_from(_, _, _, _)
sub_from(text, i, pat, repl) ==
    LET at == search_from(text, i, pat)
    IN  IF at = 0 THEN SubSeq(text, i, Len(text))
        ELSE SubSeq(text, i, at - 1) \o repl
             \o sub_from(text, match_end(text, at, pat) + 1, pat, repl)

\* str.replace(old, new), from i on
RECURSIVE str_replace(_, _, _, _)
str_replace(text, i, old, new) ==
    LET at == MinOr0({k \in i..(Len(text) - Len(old) + 1) :
                         /\ Len(old) > 0 /\ text[k] = old[1]
                         /\ SubSeq(text, k, k + Len(old) - 1) = old})
    IN  IF at = 0 THEN SubSeq(text, i, Len(text))
        ELSE SubSeq(text, i, at - 1) \o new
             \o str_replace(text, at + Len(old), old, new)

\* str.strip()
RECURSIVE str_strip(_)
str_strip(s) ==
    IF Len(s) = 0 THEN s
    ELSE IF Head(s) \in Whitespace THEN str_strip(Tail(s))
    ELSE IF s[Len(s)] \in Whitespace THEN str_strip(SubSeq(s, 1, Len(s) - 1))
    ELSE s

\* str.replace(" ", "")
RECURSIVE remove_spaces(_)
remove_spaces(s) ==
    IF Len(s) = 0 THEN s
    ELSE (IF Head(s) = " " THEN <<>> ELSE <<Head(s)>>) \o remove_spaces(Tail(s))

\* re.search(rf'{prop}:([^;]+);', block): whether it matched, and group 1
decl_search(block, prop) ==
    LET at == search_from(block, 1, prop)
    IN  IF at = 0 THEN [found |-> FALSE, group |-> <<>>]
        ELSE [found |-> TRUE,
              group |-> SubSeq(block, at + 2, decl_end(block, at, prop) - 1)]

\* re.search(r'font-family:"([^"]+)"', block)
family_search(block) ==
    LET at == search_from(block, 1, FamilyPattern)
    IN  IF at = 0 THEN [found |-> FALSE, group |-> <<>>]
        ELSE [found |-> TRUE,
              group |-> SubSeq(block, at + 3, family_end(block, at) - 1)]

\* re.search(r'url\("([^"]+\.woff2)"\)', block)
woff2_search(block) ==
    LET at == search_from(block, 1, Woff2Pattern)
    IN  IF at = 0 THEN [found |-> FALSE, group |-> <<>>]
        ELSE [found |-> TRUE,
              group |-> SubSeq(block, at + 2, woff2_end(block, at) - 2)]

-----------------------------------------------------------------------------
(* fetch_css *)

\* css_url.startswith("http://") or css_url.startswith("https://")
is_remote(url) == Len(url) > 0 /\ url[1] \in {"http://h/", "https://h/"}

\* css_url.replace('result.css', '')
without_result_css(url) == str_replace(url, 1, <<"result.css">>, <<>>)

\* './' + str(css_path.parent.relative_to(root_dir)) + '/', "\\" made "/"
local_prefix(url) == <<"./">> \o SubSeq(url, 1, Len(url) - 1)

abs_prefix(url) ==
    IF is_remote(url) THEN without_result_css(url) ELSE local_prefix(url)

\* re.sub(r'url\(["\']\./', f'url("{abs_prefix}', css_text)
fix_relative_urls(text, prefix) ==
    sub_from(text, 1, DotUrlPattern, <<"url(", DQ>> \o prefix)

-----------------------------------------------------------------------------
(* css2manifest: one block *)

ParseBlockOmitsMissing(block, rename, sadj) ==
    LET fam == family_search(block)
        url == woff2_search(block)
        rng == decl_search(block, "unicode-range")
        wgt == decl_search(block, "font-weight")
        sty == decl_search(block, "font-style")
        dsp == decl_search(block, "font-display")
        adj == decl_search(block, "size-adjust")
        asc == decl_search(block, "ascent-override")
    IN  [hasFamily |-> rename # <<>> \/ fam.found,
         family |-> IF rename # <<>> THEN rename
                    ELSE IF fam.found THEN fam.group ELSE <<>>,
         hasUrl |-> url.found,
         url |-> IF url.found THEN url.group ELSE <<>>,
         hasUnicodeRange |-> rng.found,
         unicodeRange |-> IF rng.found THEN remove_spaces(rng.group) ELSE <<>>,
         fontWeight |-> IF wgt.found THEN str_strip(wgt.group) ELSE <<"normal">>,
         fontStyle |-> IF sty.found THEN str_strip(sty.group) ELSE <<"normal">>,
         fontDisplay |-> IF dsp.found THEN str_strip(dsp.group) ELSE <<"swap">>,
         hasSizeAdjust |-> sadj # <<>> \/ adj.found,
         sizeAdjust |-> IF sadj # <<>> THEN sadj
                        ELSE IF adj.found THEN str_strip(adj.group) ELSE <<>>,
         hasAscentOverride |-> asc.found,
         ascentOverride |-> IF asc.found THEN str_strip(asc.group) ELSE <<>>]

\* lines 58-90: the manifest entry of a block; a "has" field tells whether
\* the key is in the dict
parse_block(block, rename, sadj) ==
    LET fam == family_search(block)
        url == woff2_search(block)
        rng == decl_search(block, "unicode-range")
        wgt == decl_search(block, "font-weight")
        sty == decl_search(block, "font-style")
        dsp == decl_search(block, "font-display")
        adj == decl_search(block, "size-adjust")
        asc == decl_search(block, "ascent-override")
    IN  [hasFamily |-> TRUE,
         family |-> IF rename # <<>> THEN rename
                    ELSE IF fam.found THEN fam.group ELSE <<"UnknownFamily">>,
         hasUrl |-> TRUE,
         url |-> IF url.found THEN url.group ELSE <<>>,
         hasUnicodeRange |-> TRUE,
         unicodeRange |-> IF rng.found THEN remove_spaces(rng.group) ELSE <<>>,
         fontWeight |-> IF wgt.found THEN str_strip(wgt.group) ELSE <<"normal">>,
         fontStyle |-> IF sty.found THEN str_strip(sty.group) ELSE <<"normal">>,
         fontDisplay |-> IF dsp.found THEN str_strip(dsp.group) ELSE <<"swap">>,
         hasSizeAdjust |-> sadj # <<>> \/ adj.found,
         sizeAdjust |-> IF sadj # <<>> THEN sadj
                        ELSE IF adj.found THEN str_strip(adj.group) ELSE <<>>,
         hasAscentOverride |-> asc.found,
         ascentOverride |-> IF asc.found THEN str_strip(asc.group) ELSE <<>>]

\* Path(url) drops a leading "./"
path_of(url) == IF Len(url) > 0 /\ url[1] = "./" THEN Tail(url) ELSE url

\* Path(url).relative_to("./client/fonts") raises ValueError unless this holds
relative_to_fonts_ok(url) ==
    Len(path_of(url)) > 1 /\ path_of(url)[1] = "client/fonts/"

\* str(Path(url).relative_to("./client/fonts"))
relative_to_fonts(url) == Tail(path_of(url))

\* line 96-97: the url is patched
patches_url(entry) == entry.url # <<>> /\ ~is_remote(entry.url)

\* line 107: 'size-adjust:' in patched_block
has_size_adjust(block) ==
    \E i \in 1..(Len(block) - 1) : block[i] = "size-adjust" /\ block[i + 1] = ":"

\* lines 93-113: the patched block (the url is known to convert)
patch_block(block, entry, rename, sadj) ==
    LET b1 == IF patches_url(entry)
              THEN sub_from(block, 1, Woff2Pattern,
                            <<"url(", DQ>> \o relative_to_fonts(entry.url)
                            \o <<DQ, ")">>)
              ELSE block
        b2 == IF rename # <<>>
              THEN sub_from(b1, 1, FamilyPattern,
                            <<"font-family", ":", DQ>> \o rename \o <<DQ>>)
              ELSE b1
    IN  IF sadj # <<>>
        THEN IF has_size_adjust(b2)
             THEN sub_from(b2, 1, "size-adjust",
                           <<"size-adjust", ":">> \o sadj \o <<";">>)
             ELSE SubSeq(b2, 1, Len(b2) - 1)
                  \o <<"size-adjust", ":">> \o sadj \o <<";", "}">>
        ELSE b2

-----------------------------------------------------------------------------
(* css2manifest: the call *)

\* a path at which there is no file
NoFile == <<"<no file>">>
NoCssFile == [exists |-> FALSE, content |-> <<>>]

\* process_css_fonts lines 222-247: one entry of css_map, up to the call of
\* css2manifest(css_url, font_family_rename=name, size_adjust=...)
CssMapEntry ==
    /\ cpc = "entry"
    /\ UNCHANGED <<buildvars, fontvars, mainvars>>
    /\ cpc' = IF ~forceUpdate /\ out_css.exists THEN "skipped"
              ELSE IF ~is_remote(css_url) /\ css_src = NoFile THEN "skipped"
              ELSE "fetch"
    /\ UNCHANGED <<cerr, css_url, net, css_src, font_family_rename,
                   size_adjust, css_text, blocks, bi, css_manifest,
                   css_patched, caller, forceUpdate, out_css>>

\* process_css_fonts line 254: save_css(result['css_patched'], out_path_css)
SaveCss ==
    /\ cpc = "returned" /\ caller = "process_css_fonts"
    /\ UNCHANGED <<buildvars, fontvars, mainvars>>
    /\ out_css' = [exists |-> TRUE, content |-> write_text(css_patched, linesep)]
    /\ cpc' = "saved"
    /\ UNCHANGED <<cerr, css_url, net, css_src, font_family_rename,
                   size_adjust, css_text, blocks, bi, css_manifest,
                   css_patched, caller, forceUpdate>>

\* fetch_css, and line 50-55 of css2manifest
FetchCss ==
    /\ cpc = "fetch"
    /\ UNCHANGED <<buildvars, fontvars, mainvars>>
    /\ IF is_remote(css_url) /\ net = "down"
       THEN /\ cpc' = "raised" /\ cerr' = "ConnectionError"
            /\ UNCHANGED <<css_text, blocks, bi, css_patched>>
       ELSE IF ~is_remote(css_url) /\ css_src = NoFile
       THEN /\ cpc' = "raised" /\ cerr' = "FileNotFoundError"
            /\ UNCHANGED <<css_text, blocks, bi, css_patched>>
       ELSE LET raw == IF is_remote(css_url) THEN css_src
                       ELSE read_text(css_src)
                text == fix_relative_urls(raw, abs_prefix(css_url))
            IN  /\ css_text' = text
                /\ blocks' = findall_blocks(text, 1)
                /\ css_patched' = text
                /\ bi' = 1
                /\ cpc' = "loop" /\ cerr' = cerr
    /\ UNCHANGED <<css_url, net, css_src, font_family_rename, size_adjust,
                   css_manifest, caller, forceUpdate, out_css>>

\* css2manifest lines 57-117: one iteration of the loop over the blocks
ParseBlock ==
    /\ cpc = "loop" /\ bi <= Len(blocks)
    /\ UNCHANGED <<buildvars, fontvars, mainvars>>
    /\ LET block == blocks[bi]
           entry == parse_block(block, font_family_rename, size_adjust)
       IN  /\ css_manifest' = Append(css_manifest, entry)
           /\ IF patches_url(entry) /\ ~relative_to_fonts_ok(entry.url)
              THEN /\ cpc' = "raised" /\ cerr' = "ValueError"
                   /\ UNCHANGED <<bi, css_patched>>
              ELSE /\ css_patched' =
                        str_replace(css_patched, 1, block,
                                    patch_block(block, entry,
                                                font_family_rename, size_adjust))
                   /\ bi' = bi + 1
                   /\ UNCHANGED <<cpc, cerr>>
    /\ UNCHANGED <<css_url, net, css_src, font_family_rename, size_adjust,
                   css_text, blocks, caller, forceUpdate, out_css>>

\* css2manifest lines 120-123
ReturnResult ==
    /\ cpc = "loop" /\ bi > Len(blocks)
    /\ UNCHANGED <<buildvars, fontvars, mainvars>>
    /\ cpc' = "returned"
    /\ UNCHANGED <<cerr, css_url, net, css_src, font_family_rename,
                   size_adjust, css_text, blocks, bi, css_manifest,
                   css_patched, caller, forceUpdate, out_css>>

-----------------------------------------------------------------------------
(* font_subset.py *)

\* characters of the model: a Latin letter, two CJK ideographs, a fullwidth
\* comma (U+FF0C) and the space
Characters == {"a", "zhong", "wen", "fullwidth-comma", " "}

\* chinese_chars, fullwidth_punctuation and whitespace_chars of
\* subset_font_with_extra_chars
chinese_chars == {"zhong", "wen"}
fullwidth_punctuation == {"fullwidth-comma"}
whitespace_chars == {" "}

\* files_to_scan and the characters each file holds
files_to_scan == <<"variables.css", "help.json", "version.json">>
file_characters(f) ==
    CASE f = "variables.css" -> {"a", " "}
      [] f = "help.json" -> {"a", "zhong", "fullwidth-comma"}
      [] f = "version.json" -> {"a", "wen"}

\* extract_characters(files): the characters of the files that exist
extract_characters(missing) ==
    UNION {file_characters(f) : f \in Range(files_to_scan) \ missing}

\* a font file: its path's suffix, whether it exists, its cmap table (the
\* characters it maps to glyphs) and its flavor
NoFont(suffix) == [suffix |-> suffix, exists |-> FALSE, hasCmap |-> FALSE,
                   cmap |-> {}, flavor |-> "-"]

\* options.flavor from output_font.suffix
flavor_of(suffix) ==
    IF suffix = ".woff2" THEN "woff2" ELSE IF suffix = ".woff" THEN "woff"
    ELSE "None"

\* Subsetter.populate(text), subset(font), font.save(output_font): the glyph
\* closure runs over the cmap table if the font has one; a font without one
\* is subset to its glyphs that need no character and saved all the same
subset_saved(font, text, suffix) ==
    [suffix |-> suffix, exists |-> TRUE, hasCmap |-> font.hasCmap,
     cmap |-> font.cmap \cap text, flavor |-> flavor_of(suffix)]

\* lines 129-145 of the main block: needed_chars, or exit(1)
NeededChars ==
    /\ fpc = "needed_chars" /\ font_call = "main"
    /\ UNCHANGED <<buildvars, cssvars, mainvars>>
    /\ IF chars_arg # {}
       THEN needed_chars' = chars_arg /\ fpc' = "check_input"
            /\ fresult' = fresult
       ELSE IF missing_files # {}
       THEN needed_chars' = needed_chars /\ fpc' = "ended"
            /\ fresult' = "exit(1)"
       ELSE needed_chars' = extract_characters(missing_files)
            /\ fpc' = "check_input" /\ fresult' = fresult
    /\ UNCHANGED <<font_call, chars_arg, missing_files, input_font,
                   output_font>>

\* lines 148-155 of the main block: the input font must exist
CheckInputFont ==
    /\ fpc = "check_input"
    /\ UNCHANGED <<buildvars, cssvars, mainvars>>
    /\ IF input_font.exists
       THEN fpc' = "subset_font" /\ fresult' = fresult
       ELSE fpc' = "ended" /\ fresult' = "exit(1)"
    /\ UNCHANGED <<font_call, chars_arg, missing_files, input_font,
                   output_font, needed_chars>>

\* subset_font(input_font, output_font, needed_chars), lines 95-112
SubsetFont ==
    /\ fpc = "subset_font"
    /\ UNCHANGED <<buildvars, cssvars, mainvars>>
    /\ output_font' = subset_saved(input_font, needed_chars,
                                   output_font.suffix)
    /\ fpc' = "ended" /\ fresult' = "saved"
    /\ UNCHANGED <<font_call, chars_arg, missing_files, input_font,
                   needed_chars>>

\* subset_font_with_extra_chars(input_font, output_font, extra_chars),
\* lines 38-92
SubsetFontWithExtraChars ==
    /\ fpc = "with_extra_chars" /\ font_call = "subset_font_with_extra_chars"
    /\ UNCHANGED <<buildvars, cssvars, mainvars>>
    /\ IF ~input_font.hasCmap
       THEN /\ fresult' = "error printed" /\ fpc' = "ended"
            /\ UNCHANGED <<output_font, needed_chars>>
       ELSE LET default_chars == ((input_font.cmap \ chinese_chars)
                                  \cup fullwidth_punctuation)
                                 \cup whitespace_chars
                keep_chars == default_chars \cup chars_arg
            IN  /\ needed_chars' = keep_chars
                /\ output_font' = subset_saved(input_font, keep_chars,
                                               output_font.suffix)
                /\ fresult' = "saved" /\ fpc' = "ended"
    /\ UNCHANGED <<font_call, chars_arg, missing_files, input_font>>

-----------------------------------------------------------------------------
(* build.py: main, build_docker and deploy_to_remote_server *)

\* the parsed command line: -d, -e, -a, -p
Args(d, e, a, p) == [docker |-> d, extension |-> e, all |-> a, deploy |-> p]
NoArgs == Args(FALSE, FALSE, FALSE, FALSE)

WithDefaultsNoDeploy(a) ==
    IF ~(a.docker \/ a.extension \/ a.all)
    THEN [a EXCEPT !.all = TRUE]
    ELSE a

\* main lines 516-518: no build kind given means --all and --deploy
with_defaults(a) ==
    IF ~(a.docker \/ a.extension \/ a.all)
    THEN [a EXCEPT !.all = TRUE, !.deploy = TRUE]
    ELSE a

\* the remote host as the commands of the deployment find it: whether the
\* project path exists, git pull succeeds, the docker daemon answers, the
\* container is running, dctl manages to start it, the purge script succeeds
NoRemote == [cd |-> TRUE, pull |-> TRUE, daemon |-> TRUE, container |-> TRUE,
             dctl |-> TRUE, purge |-> TRUE]
RemoteEnvs == [cd : BOOLEAN, pull : BOOLEAN, daemon : BOOLEAN,
               container : BOOLEAN, dctl : BOOLEAN, purge : BOOLEAN]

\* 'docker ps -q -f name=...' exits 0 whenever the daemon answers, also when
\* the filter matches no container (it then prints nothing)
docker_ps_ok(r) == r.daemon

\* '(docker ps -q -f name=... || dctl ...)': the commands run and the status
check_or_start(r) ==
    IF docker_ps_ok(r) THEN [ran |-> <<"docker ps">>, ok |-> TRUE]
    ELSE [ran |-> <<"docker ps", "dctl">>, ok |-> r.dctl]

\* 'docker exec <container> sh /purge-cache.sh' succeeds if the container
\* runs (it ran before, or dctl has started it) and the script succeeds
purge_ok(r) ==
    /\ (r.daemon /\ r.container) \/ (~docker_ps_ok(r) /\ r.dctl)
    /\ r.purge

\* the composed command of lines 357-370 run by the remote shell: an &&
\* chain stops at the first command that fails
deploy_command(r) ==
    IF ~r.cd THEN [ran |-> <<"cd">>, ok |-> FALSE]
    ELSE IF ~r.pull THEN [ran |-> <<"cd", "git pull">>, ok |-> FALSE]
    ELSE IF ~check_or_start(r).ok
    THEN [ran |-> <<"cd", "git pull">> \o check_or_start(r).ran, ok |-> FALSE]
    ELSE [ran |-> <<"cd", "git pull">> \o check_or_start(r).ran
                  \o <<"docker exec purge-cache.sh">>,
          ok |-> purge_ok(r)]

DispatchContainerFirst ==
    /\ pc = "dispatch"
    /\ UNCHANGED <<cssvars, fontvars>>
    /\ args' = with_defaults(args)
    /\ pc' = IF args'.all THEN "check_docker"
             ELSE IF args'.extension THEN "build_extensions"
             ELSE "check_docker"
    /\ UNCHANGED <<err, version_arg, cur_version, version, today, linesep,
                   versionFile, readme, manifest, dist, zip, bix,
                   versionFile0, readme0, manifest0>>
    /\ UNCHANGED <<trace, exit_code, docker_ok, remote>>

\* main lines 516-528: the defaults, and the branch taken
Dispatch ==
    /\ pc = "dispatch"
    /\ UNCHANGED <<cssvars, fontvars>>
    /\ args' = with_defaults(args)
    /\ pc' = IF args'.all THEN "css_fonts"
             ELSE IF args'.extension THEN "build_extensions"
             ELSE "check_docker"
    /\ UNCHANGED <<err, version_arg, cur_version, version, today, linesep,
                   versionFile, readme, manifest, dist, zip, bix,
                   versionFile0, readme0, manifest0>>
    /\ UNCHANGED <<trace, exit_code, docker_ok, remote>>

\* main line 522: process_css_fonts(True) returns, or an exception of
\* css2manifest leaves it
ProcessCssFonts ==
    /\ pc = "css_fonts"
    /\ UNCHANGED <<cssvars, fontvars>>
    /\ \E outcome \in {"ok", "ConnectionError", "ValueError"} :
          IF outcome = "ok"
          THEN pc' = "build_extensions" /\ err' = err
          ELSE Crash(outcome)
    /\ trace' = Append(trace, "process_css_fonts")
    /\ UNCHANGED <<version_arg, cur_version, version, today, linesep,
                   versionFile, readme, manifest, dist, zip, bix,
                   versionFile0, readme0, manifest0>>
    /\ UNCHANGED <<args, exit_code, docker_ok, remote>>

\* main lines 523-527: build_extensions has returned
ExtensionsReturn ==
    /\ pc = "done"
    /\ UNCHANGED <<cssvars, fontvars>>
    /\ pc' = IF args.all THEN "check_docker" ELSE "deploy"
    /\ trace' = Append(trace, "build_extensions")
    /\ UNCHANGED <<err, version_arg, cur_version, version, today, linesep,
                   versionFile, readme, manifest, dist, zip, bix,
                   versionFile0, readme0, manifest0>>
    /\ UNCHANGED <<args, exit_code, docker_ok, remote>>

\* build_docker lines 295-298 with _check_docker
CheckDocker ==
    /\ pc = "check_docker"
    /\ UNCHANGED <<cssvars, fontvars>>
    /\ \E found \in {"no docker", "not running", "no buildx", "ok"} :
          IF found = "ok"
          THEN /\ pc' = "setup_buildx" /\ docker_ok' = docker_ok
               /\ trace' = Append(trace, "docker info")
          ELSE /\ pc' = "docker_return" /\ docker_ok' = "False"
               /\ trace' = trace \o <<"docker info",
                                      "[ERROR] Docker is not available">>
    /\ UNCHANGED <<err, version_arg, cur_version, version, today, linesep,
                   versionFile, readme, manifest, dist, zip, bix,
                   versionFile0, readme0, manifest0>>
    /\ UNCHANGED <<args, exit_code, remote>>

\* build_docker lines 301-308: the buildx builder, on Linux only
SetupBuildx ==
    /\ pc = "setup_buildx"
    /\ UNCHANGED <<cssvars, fontvars>>
    /\ \E system \in {"Linux", "Darwin"}, ok \in BOOLEAN :
          IF system = "Linux" /\ ~ok
          THEN /\ pc' = "docker_return" /\ docker_ok' = "False"
               /\ trace' = trace \o <<"buildx setup",
                                      "[ERROR] Failed to set up buildx builder">>
          ELSE /\ pc' = "build_latest" /\ docker_ok' = docker_ok
               /\ trace' = IF system = "Linux"
                           THEN Append(trace, "buildx setup") ELSE trace
    /\ UNCHANGED <<err, version_arg, cur_version, version, today, linesep,
                   versionFile, readme, manifest, dist, zip, bix,
                   versionFile0, readme0, manifest0>>
    /\ UNCHANGED <<args, exit_code, remote>>

BuildLatestContinues ==
    /\ pc = "build_latest"
    /\ UNCHANGED <<cssvars, fontvars>>
    /\ \E ok \in BOOLEAN :
          /\ pc' = "build_version"
          /\ docker_ok' = IF ok THEN docker_ok ELSE "False"
          /\ trace' = IF ok THEN Append(trace, "build --push latest")
                      ELSE trace \o <<"build --push latest",
                                      "[ERROR] Docker build failed">>
    /\ UNCHANGED <<err, version_arg, cur_version, version, today, linesep,
                   versionFile, readme, manifest, dist, zip, bix,
                   versionFile0, readme0, manifest0>>
    /\ UNCHANGED <<args, exit_code, remote>>

\* build_docker lines 313-321: build and push the tag latest
BuildLatest ==
    /\ pc = "build_latest"
    /\ UNCHANGED <<cssvars, fontvars>>
    /\ \E ok \in BOOLEAN :
          IF ok
          THEN /\ pc' = "build_version" /\ docker_ok' = docker_ok
               /\ trace' = Append(trace, "build --push latest")
          ELSE /\ pc' = "docker_return" /\ docker_ok' = "False"
               /\ trace' = trace \o <<"build --push latest",
                                      "[ERROR] Docker build failed">>
    /\ UNCHANGED <<err, version_arg, cur_version, version, today, linesep,
                   versionFile, readme, manifest, dist, zip, bix,
                   versionFile0, readme0, manifest0>>
    /\ UNCHANGED <<args, exit_code, remote>>

\* build_docker lines 323-338: build and push the tag of self.version
BuildVersion ==
    /\ pc = "build_version"
    /\ UNCHANGED <<cssvars, fontvars>>
    /\ \E ok \in BOOLEAN :
          IF ok
          THEN /\ docker_ok' = "True"
               /\ trace' = Append(trace, "build --push version")
          ELSE /\ docker_ok' = "False"
               /\ trace' = trace \o <<"build --push version",
                                      "[ERROR] Docker build failed">>
    /\ pc' = "docker_return"
    /\ UNCHANGED <<err, version_arg, cur_version, version, today, linesep,
                   versionFile, readme, manifest, dist, zip, bix,
                   versionFile0, readme0, manifest0>>
    /\ UNCHANGED <<args, exit_code, remote>>

DockerReturnAlwaysFatal ==
    /\ pc = "docker_return"
    /\ UNCHANGED <<cssvars, fontvars>>
    /\ IF docker_ok = "False"
       THEN pc' = "exited" /\ exit_code' = "1"
       ELSE pc' = "deploy" /\ exit_code' = exit_code
    /\ UNCHANGED <<err, version_arg, cur_version, version, today, linesep,
                   versionFile, readme, manifest, dist, zip, bix,
                   versionFile0, readme0, manifest0>>
    /\ UNCHANGED <<args, trace, docker_ok, remote>>

\* main lines 525 and 529-530: build_docker has returned
DockerReturn ==
    /\ pc = "docker_return"
    /\ UNCHANGED <<cssvars, fontvars>>
    /\ IF ~args.all /\ docker_ok = "False"
       THEN pc' = "exited" /\ exit_code' = "1"
       ELSE pc' = "deploy" /\ exit_code' = exit_code
    /\ UNCHANGED <<err, version_arg, cur_version, version, today, linesep,
                   versionFile, readme, manifest, dist, zip, bix,
                   versionFile0, readme0, manifest0>>
    /\ UNCHANGED <<args, trace, docker_ok, remote>>

\* main lines 533-535: deployment if requested, else the run ends
DeployOrExit ==
    /\ pc = "deploy"
    /\ UNCHANGED <<cssvars, fontvars>>
    /\ IF args.deploy
       THEN pc' = "check_ssh" /\ exit_code' = exit_code
       ELSE pc' = "exited" /\ exit_code' = "0"
    /\ UNCHANGED <<err, version_arg, cur_version, version, today, linesep,
                   versionFile, readme, manifest, dist, zip, bix,
                   versionFile0, readme0, manifest0>>
    /\ UNCHANGED <<args, trace, docker_ok, remote>>

\* deploy_to_remote_server lines 342-345 with _check_ssh
CheckSsh ==
    /\ pc = "check_ssh"
    /\ UNCHANGED <<cssvars, fontvars>>
    /\ \E ok \in BOOLEAN :
          IF ok
          THEN /\ pc' = "run_deploy" /\ exit_code' = exit_code
               /\ trace' = Append(trace, "ssh test")
          ELSE /\ pc' = "exited" /\ exit_code' = "0"
               /\ trace' = trace \o <<"ssh test",
                                      "[ERROR] SSH is not available">>
    /\ UNCHANGED <<err, version_arg, cur_version, version, today, linesep,
                   versionFile, readme, manifest, dist, zip, bix,
                   versionFile0, readme0, manifest0>>
    /\ UNCHANGED <<args, docker_ok, remote>>

\* deploy_to_remote_server lines 357-379: the composed command is run
RunDeploy ==
    /\ pc = "run_deploy"
    /\ UNCHANGED <<cssvars, fontvars>>
    /\ \E r \in RemoteEnvs :
          /\ remote' = r
          /\ trace' = trace \o <<"ssh">> \o deploy_command(r).ran
                      \o (IF deploy_command(r).ok THEN <<>>
                          ELSE <<"Deployment failed">>)
    /\ pc' = "exited" /\ exit_code' = "0"
    /\ UNCHANGED <<err, version_arg, cur_version, version, today, linesep,
                   versionFile, readme, manifest, dist, zip, bix,
                   versionFile0, readme0, manifest0>>
    /\ UNCHANGED <<args, docker_ok>>

-----------------------------------------------------------------------------
(* Initial states: the files and arguments a run can start from *)

V120 == <<"1", ".", "2", ".", "0">>
V130 == <<"1", ".", "3", ".", "0">>
V190 == <<"1", ".", "9", ".", "0">>
V1100 == <<"1", ".", "1", "0", ".", "0">>
V12 == <<"1", ".", "2">>
V100 == <<"1", ".", "0", ".", "0">>
V101 == <<"1", ".", "0", ".", "1">>
\* a changelog key that is no Version Record
VBad == <<"1", ".", "a">>

DateOld == "2024-01-15"
DateNow == "2025-03-01"

\* the fields a changelog entry read from version.json can have
EntryShapes(k) ==
    { \* complete
      [key |-> k, hasDate |-> TRUE, date |-> DateOld, changes |-> "dict",
       hasZh |-> TRUE, zh |-> <<"zh1">>, hasEn |-> TRUE, en |-> <<"en1", "en2">>,
       legacy |-> <<>>],
      \* no en list
      [key |-> k, hasDate |-> TRUE, date |-> DateOld, changes |-> "dict",
       hasZh |-> TRUE, zh |-> <<"zh1">>, hasEn |-> FALSE, en |-> <<>>,
       legacy |-> <<>>],
      \* neither date nor changes
      [key |-> k, hasDate |-> FALSE, date |-> "", changes |-> "absent",
       hasZh |-> FALSE, zh |-> <<>>, hasEn |-> FALSE, en |-> <<>>,
       legacy |-> <<>>],
      \* changes is a JSON list of descriptions, not an object
      [key |-> k, hasDate |-> TRUE, date |-> DateOld, changes |-> "list",
       hasZh |-> FALSE, zh |-> <<>>, hasEn |-> FALSE, en |-> <<>>,
       legacy |-> <<"fix1">>] }

StoreKeys == {V120, V190, V1100, V12, VBad}

\* changelogs of at most n entries, keys distinct (a JSON object)
Changelogs(n) ==
    UNION { {c \in [1..m -> UNION {EntryShapes(k) : k \in StoreKeys}] :
                \A i, j \in 1..m : i # j => c[i].key # c[j].key}
            : m \in 0..n }

FullEntry(k) == CHOOSE e \in EntryShapes(k) : e.hasEn /\ e.changes = "dict"

PlainDoc == [exists |-> TRUE, version |-> V120, hasChangelog |-> TRUE,
             changelog |-> <<FullEntry(V120)>>]

PlainManifest(b) == [exists |-> TRUE, hasVersion |-> TRUE, version |-> V120,
                     other |-> b]

PlainReadme(f) ==
    [exists |-> TRUE,
     content |-> <<"x">> \o version_tag(readme_product(f), V120) \o <<"LF">>]

\* strings of at most n characters over the alphabet
Strings(alphabet, n) == UNION {[1..m -> alphabet] : m \in 0..n}

VersionAlphabet == {"0", "1", ".", "a", SuperscriptTwo}

\* pieces of README text
ReadmeFragments ==
    { version_tag(REGULAR_ZH, V12),
      version_tag(REGULAR_EN, V12),
      <<REGULAR_ZH, " ", "(", "v", ")">>,
      <<REGULAR_ZH, " ", "(", "v", "1", ".">>,
      <<REGULAR_ZH, "(", "v", "1", ")">>,
      <<"x">>,
      <<"LF">>,
      <<"CR", "LF">> }

ReadmeTexts(n) == {Concat(fs) : fs \in Strings(ReadmeFragments, n)}

BuildStart ==
    /\ pc = "get_version" /\ err = "none"
    /\ cur_version = NoneVal /\ version = NoneVal
    /\ bix = 0
    /\ versionFile0 = versionFile /\ readme0 = readme /\ manifest0 = manifest

\* the version store: every shape of version.json
InitStore ==
    /\ \/ \E c \in Changelogs(MaxEntries) :
             versionFile = [exists |-> TRUE, hasChangelog |-> TRUE,
                            changelog |-> c,
                            version |-> IF Len(c) > 0 THEN c[1].key ELSE V120]
       \/ versionFile = [exists |-> TRUE, hasChangelog |-> FALSE,
                         changelog |-> <<>>, version |-> V120]
    /\ version_arg \in {<<>>, V120, V130, V1100}
    /\ today = DateNow /\ linesep = <<"LF">>
    /\ readme = [f \in ReadmeFiles |-> PlainReadme(f)]
    /\ manifest = [b \in BrowserSet |-> PlainManifest(b)]
    /\ dist = [b \in BrowserSet |-> NoDir]
    /\ zip = [b \in BrowserSet |-> FALSE]

\* the version string: every string over the alphabet, and JSON null
InitValidate ==
    /\ version_arg \in Strings(VersionAlphabet, MaxVerLen)
    /\ \E v \in {V120, <<>>, NoneVal} :
          versionFile = [PlainDoc EXCEPT !.version = v]
    /\ today = DateNow /\ linesep = <<"LF">>
    /\ readme = [f \in ReadmeFiles |-> PlainReadme(f)]
    /\ manifest = [b \in BrowserSet |-> PlainManifest(b)]
    /\ dist = [b \in BrowserSet |-> NoDir]
    /\ zip = [b \in BrowserSet |-> FALSE]

\* the manifests and the staging area: present or not, agreeing or not
InitResolve ==
    /\ versionFile \in {NoDoc, PlainDoc}
    /\ manifest \in [BrowserSet ->
                       {NoManifest,
                        [exists |-> TRUE, hasVersion |-> FALSE,
                         version |-> <<>>, other |-> "fields"],
                        [exists |-> TRUE, hasVersion |-> TRUE,
                         version |-> V100, other |-> "fields"],
                        [exists |-> TRUE, hasVersion |-> TRUE,
                         version |-> V101, other |-> "fields"]}]
    /\ version_arg \in {<<>>, V130}
    /\ today = DateNow /\ linesep = <<"LF">>
    /\ readme = [f \in ReadmeFiles |-> PlainReadme(f)]
    /\ \E stale \in BOOLEAN :
          /\ dist = [b \in BrowserSet |->
                       IF stale
                       THEN [NoDir EXCEPT !.exists = TRUE,
                                          !.paths = {<<"stale.js">>}]
                       ELSE NoDir]
          /\ zip = [b \in BrowserSet |-> stale]

\* the README files: every text of a few fragments, on either platform
InitReadme ==
    /\ versionFile = PlainDoc
    /\ version_arg \in {<<>>, V130}
    /\ today = DateNow
    /\ linesep \in {<<"LF">>, <<"CR", "LF">>}
    /\ \E zh \in {[exists |-> FALSE, content |-> <<>>]}
                 \cup {[exists |-> TRUE, content |-> t] :
                          t \in ReadmeTexts(MaxReadmeFrags)},
          en \in {[exists |-> FALSE, content |-> <<>>],
                  PlainReadme("README_EN.md"),
                  PlainReadme("README.md")} :
          readme = [f \in ReadmeFiles |-> IF f = "README.md" THEN zh ELSE en]
    /\ manifest = [b \in BrowserSet |-> PlainManifest(b)]
    /\ dist = [b \in BrowserSet |-> NoDir]
    /\ zip = [b \in BrowserSet |-> FALSE]

CssIdle ==
    /\ cpc = "idle" /\ cerr = "none"
    /\ css_url = <<>> /\ net = "ok"
    /\ css_src = <<>> /\ font_family_rename = <<>> /\ size_adjust = <<>>
    /\ css_text = <<>> /\ blocks = <<>> /\ bi = 0
    /\ css_manifest = <<>> /\ css_patched = <<>>
    /\ caller = "none" /\ forceUpdate = FALSE /\ out_css = NoCssFile

MainStart ==
    /\ trace = <<>> /\ exit_code = "none"
    /\ docker_ok = "none" /\ remote = NoRemote

MainIdle == MainStart /\ args = NoArgs

FontIdle ==
    /\ fpc = "idle" /\ font_call = "none" /\ chars_arg = {}
    /\ missing_files = {} /\ input_font = NoFont(".woff2")
    /\ output_font = NoFont(".woff2") /\ needed_chars = {}
    /\ fresult = "none"

\* a font file of the given suffix
FontFile(suffix, hasCmap, cmap) ==
    [suffix |-> suffix, exists |-> TRUE, hasCmap |-> hasCmap, cmap |-> cmap,
     flavor |-> flavor_of(suffix)]

\* a run of font_subset.py, or a call of subset_font_with_extra_chars
InitFontRun ==
    /\ \/ /\ font_call = "main" /\ fpc = "needed_chars"
          /\ missing_files \in SUBSET Range(files_to_scan)
          /\ input_font \in {NoFont(".ttf"), FontFile(".ttf", FALSE, {}),
                              FontFile(".ttf", TRUE, {"a"}),
                              FontFile(".ttf", TRUE, Characters)}
       \/ /\ font_call = "subset_font_with_extra_chars"
          /\ fpc = "with_extra_chars"
          /\ missing_files = {}
          /\ input_font \in {FontFile(".ttf", FALSE, {}),
                              FontFile(".ttf", TRUE, {"a"}),
                              FontFile(".ttf", TRUE, Characters)}
    /\ chars_arg \in {{}, {"a"}, {"a", "zhong"}}
    /\ output_font \in {NoFont(".woff2"), NoFont(".woff"), NoFont(".ttf")}
    /\ needed_chars = {} /\ fresult = "none"

InitBuild ==
    /\ InitStore \/ InitValidate \/ InitResolve \/ InitReadme
    /\ BuildStart
    /\ CssIdle
    /\ FontIdle
    /\ MainStart
    /\ args = Args(FALSE, TRUE, FALSE, FALSE)

\* pieces of stylesheet text
UrlRelative == <<"./", "f1", ".woff2">>
UrlAbsolute == <<"https://h/", "f1", ".woff2">>
UrlBare == <<"f1", ".woff2">>

Decl(prop, value) == <<prop, ":">> \o value \o <<";">>
FamilyDecl(name) == <<"font-family", ":", DQ, name, DQ, ";">>
SrcDecl(url) == <<"src", ":", "url(", DQ>> \o url \o <<DQ, ")", ";">>
WeightStyleDisplay ==
    Decl("font-weight", <<"400">>) \o Decl("font-style", <<"italic">>)
    \o Decl("font-display", <<"block">>)
RangeDecl == Decl("unicode-range", <<"U+1", ",", " ", "U+2">>)
FontFace(body) == <<"@font-face", "{">> \o body \o <<"}">>

\* the @font-face blocks a stylesheet is built from
BlockShapes ==
    { \* well-formed, families A and B
      FontFace(FamilyDecl("A") \o SrcDecl(UrlRelative) \o WeightStyleDisplay
               \o RangeDecl),
      FontFace(FamilyDecl("B") \o SrcDecl(UrlRelative) \o WeightStyleDisplay
               \o RangeDecl),
      \* white space after the colon of font-family
      FontFace(<<"font-family", ":", " ", DQ, "A", DQ, ";">>
               \o SrcDecl(UrlRelative) \o WeightStyleDisplay \o RangeDecl),
      \* font-family in single quotes
      FontFace(<<"font-family", ":", SQ, "A", SQ, ";">>
               \o SrcDecl(UrlRelative) \o WeightStyleDisplay \o RangeDecl),
      \* no font-family
      FontFace(SrcDecl(UrlRelative) \o WeightStyleDisplay \o RangeDecl),
      \* a size-adjust declaration
      FontFace(FamilyDecl("A") \o SrcDecl(UrlRelative)
               \o Decl("size-adjust", <<"90%">>) \o RangeDecl),
      \* size-adjust last, without a semicolon
      FontFace(FamilyDecl("A") \o SrcDecl(UrlRelative) \o RangeDecl
               \o <<"size-adjust", ":", "90%">>),
      \* white space after the colon of size-adjust
      FontFace(FamilyDecl("A") \o SrcDecl(UrlRelative)
               \o Decl("size-adjust", <<" ", "90%">>) \o RangeDecl),
      \* the last declaration without a semicolon
      FontFace(FamilyDecl("A") \o SrcDecl(UrlRelative) \o WeightStyleDisplay
               \o <<"unicode-range", ":", "U+1">>),
      \* an absolute url
      FontFace(FamilyDecl("A") \o SrcDecl(UrlAbsolute) \o RangeDecl),
      \* a relative url that does not start with "./"
      FontFace(FamilyDecl("A") \o SrcDecl(UrlBare) \o RangeDecl),
      \* a single-quoted relative url
      FontFace(FamilyDecl("A")
               \o <<"src", ":", "url(", SQ, "./", "f1", ".woff2", SQ, ")", ";">>
               \o RangeDecl),
      \* an empty block
      <<"@font-face", " ", "{", "}">>,
      \* one declaration a line, ascent-override
      <<"@font-face", " ", "{", "LF">> \o FamilyDecl("A") \o <<"LF">>
        \o Decl("ascent-override", <<" ", "90%">>) \o <<"LF", "}">> }

RECURSIVE Lines(_)
Lines(bs) == IF Len(bs) = 0 THEN <<>> ELSE Head(bs) \o <<"LF">> \o Lines(Tail(bs))

Stylesheets(n) == {Lines(bs) : bs \in Strings(BlockShapes, n)}

\* client/fonts/LXGWWenKaiScreen/result.css and the like (process_css_fonts)
LocalFontCss == <<"client/fonts/", "LXGWWenKaiScreen/", "result.css">>
\* a stylesheet of the project outside the font directory
LocalOtherCss == <<"client/css/", "fonts.css">>
\* https://fontsapi.zeoseven.com/81/main/result.css and the like
RemoteResultCss == <<"https://h/", "81/", "main/", "result.css">>
\* a remote stylesheet with another file name
RemoteOtherCss == <<"https://h/", "81/", "style.css">>

BuildIdle ==
    /\ pc = "idle" /\ err = "none"
    /\ version_arg = <<>> /\ cur_version = NoneVal /\ version = NoneVal
    /\ today = DateNow /\ linesep = <<"LF">>
    /\ versionFile = PlainDoc /\ versionFile0 = PlainDoc
    /\ readme = [f \in ReadmeFiles |-> PlainReadme(f)] /\ readme0 = readme
    /\ manifest = [b \in BrowserSet |-> PlainManifest(b)]
    /\ manifest0 = manifest
    /\ dist = [b \in BrowserSet |-> NoDir]
    /\ zip = [b \in BrowserSet |-> FALSE]
    /\ bix = 0

\* the body of an unsuccessful HTTP response
NotFoundBody == <<"Not", " ", "Found">>

\* a css2manifest call: every stylesheet of a few blocks, from each source
InitDirectCall ==
    /\ caller = "direct" /\ cpc = "fetch"
    /\ forceUpdate = FALSE /\ out_css = NoCssFile
    /\ font_family_rename \in {<<>>, <<"C">>}
    /\ size_adjust \in {<<>>, <<"125%">>}
    /\ \/ /\ css_url \in {LocalFontCss, RemoteResultCss}
          /\ net = "ok"
          /\ css_src \in Stylesheets(MaxBlocks)
       \/ /\ css_url \in {LocalOtherCss, RemoteOtherCss}
          /\ net = "ok"
          /\ css_src \in Stylesheets(1)
       \/ /\ css_url = RemoteResultCss
          /\ \/ net = "down" /\ css_src = <<>>
             \/ net = "404" /\ css_src = NotFoundBody
       \/ /\ css_url = LocalFontCss /\ net = "ok" /\ css_src = NoFile

\* process_css_fonts working on one entry of css_map
InitCssMapEntry ==
    /\ caller = "process_css_fonts" /\ cpc = "entry"
    /\ forceUpdate \in BOOLEAN
    /\ out_css \in {NoCssFile, [exists |-> TRUE, content |-> <<"old">>]}
    /\ font_family_rename = <<"C">>
    /\ size_adjust \in {<<>>, <<"125%">>}
    /\ \/ /\ css_url = LocalFontCss /\ net = "ok"
          /\ css_src \in Stylesheets(1) \cup {NoFile}
       \/ /\ css_url = RemoteResultCss
          /\ \/ net = "ok" /\ css_src \in Stylesheets(1)
             \/ net = "down" /\ css_src = <<>>
             \/ net = "404" /\ css_src = NotFoundBody

InitCss ==
    /\ BuildIdle
    /\ FontIdle
    /\ MainIdle
    /\ cerr = "none"
    /\ InitDirectCall \/ InitCssMapEntry
    /\ css_text = <<>> /\ blocks = <<>> /\ bi = 0
    /\ css_manifest = <<>> /\ css_patched = <<>>

\* a build run: build.py -e, that is Builder(version_str) and
\* build_extensions()
Init == InitBuild

Next ==
    \/ GetVersion
    \/ ValidateVersion
    \/ UpdateVersionJson
    \/ UpdateReadmeFiles
    \/ Dispatch
    \/ PrepareDist
    \/ SyncManifest
    \/ CopyFiles
    \/ CreateZip

Spec == Init /\ [][Next]_vars

\* a call of css2manifest(css_url, font_family_rename, size_adjust)
NextCss ==
    \/ CssMapEntry
    \/ FetchCss
    \/ ParseBlock
    \/ ReturnResult
    \/ SaveCss

SpecCss == InitCss /\ [][NextCss]_vars

\* a run of font_subset.py
InitFont ==
    /\ BuildIdle
    /\ CssIdle
    /\ MainIdle
    /\ InitFontRun

NextFont ==
    \/ NeededChars
    \/ CheckInputFont
    \/ SubsetFont
    \/ SubsetFontWithExtraChars

SpecFont == InitFont /\ [][NextFont]_vars

\* a run of build.py with any command line
InitMain ==
    /\ CssIdle
    /\ FontIdle
    /\ MainStart
    /\ args \in [docker : BOOLEAN, extension : BOOLEAN, all : BOOLEAN,
                  deploy : BOOLEAN]
    /\ version_arg \in {<<>>, V130, VBad}
    /\ versionFile = PlainDoc
    /\ today = DateNow /\ linesep = <<"LF">>
    /\ readme = [f \in ReadmeFiles |-> PlainReadme(f)]
    /\ manifest \in {[b \in BrowserSet |-> PlainManifest(b)],
                      [b \in BrowserSet |-> IF b = "Firefox" THEN NoManifest
                                            ELSE PlainManifest(b)]}
    /\ dist = [b \in BrowserSet |-> NoDir]
    /\ zip = [b \in BrowserSet |-> FALSE]
    /\ BuildStart

NextMain ==
    \/ GetVersion
    \/ ValidateVersion
    \/ UpdateVersionJson
    \/ UpdateReadmeFiles
    \/ Dispatch
    \/ ProcessCssFonts
    \/ PrepareDist
    \/ SyncManifest
    \/ CopyFiles
    \/ CreateZip
    \/ ExtensionsReturn
    \/ CheckDocker
    \/ SetupBuildx
    \/ BuildLatest
    \/ BuildVersion
    \/ DockerReturn
    \/ DeployOrExit
    \/ CheckSsh
    \/ RunDeploy

SpecMain == InitMain /\ [][NextMain]_vars

\* a key with the sort key of 1.2.0 and another spelling
V0120 == <<"0", "1", ".", "2", ".", "0">>

\* changelogs whose keys tie in the sort, in either order
InitTies ==
    /\ \E c \in {<<FullEntry(V120), FullEntry(V0120)>>,
                  <<FullEntry(V0120), FullEntry(V120)>>,
                  <<FullEntry(V0120), FullEntry(V190)>>} :
          versionFile = [exists |-> TRUE, hasChangelog |-> TRUE,
                         changelog |-> c, version |-> c[1].key]
    /\ version_arg \in {<<>>, V120, V0120, V130}
    /\ today = DateNow /\ linesep = <<"LF">>
    /\ readme = [f \in ReadmeFiles |-> PlainReadme(f)]
    /\ manifest = [b \in BrowserSet |-> PlainManifest(b)]
    /\ dist = [b \in BrowserSet |-> NoDir]
    /\ zip = [b \in BrowserSet |-> FALSE]

\* set-version applied twice: Builder(version_str), then Builder(version)
InitAgain ==
    /\ InitStore \/ InitReadme \/ InitTies
    /\ BuildStart
    /\ CssIdle
    /\ FontIdle
    /\ MainIdle

NextAgain ==
    \/ GetVersion
    \/ ValidateVersion
    \/ UpdateVersionJson
    \/ UpdateReadmeFiles
    \/ SetVersionAgain

SpecAgain == InitAgain /\ [][NextAgain]_vars

-----------------------------------------------------------------------------
(* Properties *)

\* ^\d+(\.\d+)*$ : non-empty runs of decimal digits separated by single dots
DottedNumeric(s) ==
    /\ s # NoneVal
    /\ Len(s) > 0
    /\ \A i \in 1..Len(s) : s[i] \in DecimalDigits \cup {"."}
    /\ s[1] # "." /\ s[Len(s)] # "."
    /\ \A i \in 1..(Len(s) - 1) : ~(s[i] = "." /\ s[i + 1] = ".")

\* get_version returned (line 182 did not raise)
Resolved == get_version(versionFile0, manifest0).err = "none"

\* _update_version_json has returned
JsonWritten ==
    \/ pc \in {"update_readme", "dispatch", "build_extensions",
               "sync_manifest", "copy_files", "create_zip", "done"}
    \/ pc = "crashed" /\ bix >= 1

\* _update_readme_files has returned
ReadmesWritten ==
    \/ pc \in {"dispatch", "build_extensions", "sync_manifest",
               "copy_files", "create_zip", "done"}
    \/ pc = "crashed" /\ bix >= 1

KeyAt(changelog, k) == CHOOSE i \in 1..Len(changelog) : changelog[i].key = k

\* C1: once set-version has completed on a document whose changelog keys are
\* all dotted-numeric, a key whose tuple of integer components is larger is
\* stored before every key whose tuple is smaller ("1.10.0" before "1.9.0").
C1_ChangelogSortedDescending ==
    (JsonWritten /\ \A k \in Keys(versionFile0.changelog) : DottedNumeric(k))
    => LET log == versionFile.changelog
       IN  /\ \A i, j \in 1..Len(log) :
                 tuple_less(key_tuple(log[j].key), key_tuple(log[i].key))
                 => i < j
           /\ (HasKey(log, V1100) /\ HasKey(log, V190))
              => KeyAt(log, V1100) < KeyAt(log, V190)

\* the document held "1.9.0" before "1.10.0" and set-version reordered them
C1_Witness ==
    /\ JsonWritten
    /\ Len(versionFile0.changelog) = 2
    /\ versionFile0.changelog[1].key = V190
    /\ versionFile0.changelog[2].key = V1100
    /\ versionFile.changelog[1].key = V1100

\* the entry keyed by the version being set, before and after
OldEntry == EntryOf(versionFile0.changelog, version)
NewEntry == EntryOf(versionFile.changelog, version)
HadEntry == versionFile0.hasChangelog /\ HasKey(versionFile0.changelog, version)
Descriptions(e) == Range(e.zh) \cup Range(e.en) \cup Range(e.legacy)

OthersKept ==
    \A k \in Keys(versionFile0.changelog) \ {version} :
        /\ HasKey(versionFile.changelog, k)
        /\ EntryOf(versionFile.changelog, k) = EntryOf(versionFile0.changelog, k)

\* C2 as stated: set-version(v) on a document that already has an entry for v
\* keeps every change description recorded in that entry and its date, adds
\* only missing fields, and leaves the other entries alone.
C2_Original ==
    (JsonWritten /\ HadEntry)
    => /\ Descriptions(OldEntry) \subseteq Descriptions(NewEntry)
       /\ OldEntry.hasDate => NewEntry.date = OldEntry.date
       /\ Keys(versionFile.changelog) = Keys(versionFile0.changelog)
       /\ OthersKept

\* C2 amended: the date and the zh/en lists of a changes object are kept and
\* the missing fields added; a changes value that is not an object is
\* replaced by empty zh and en lists; the other entries are left alone.
C2_ExistingEntryBackfilled ==
    (JsonWritten /\ HadEntry)
    => /\ NewEntry.hasDate /\ NewEntry.changes = "dict"
       /\ NewEntry.hasZh /\ NewEntry.hasEn
       /\ NewEntry.date = (IF OldEntry.hasDate THEN OldEntry.date ELSE today)
       /\ IF OldEntry.changes = "dict"
          THEN /\ NewEntry.zh = (IF OldEntry.hasZh THEN OldEntry.zh ELSE <<>>)
               /\ NewEntry.en = (IF OldEntry.hasEn THEN OldEntry.en ELSE <<>>)
          ELSE Descriptions(NewEntry) = {}
       /\ Keys(versionFile.changelog) = Keys(versionFile0.changelog)
       /\ OthersKept

\* the entry had a zh description and no en list: zh kept, en added empty
C2_Witness ==
    /\ JsonWritten /\ HadEntry
    /\ OldEntry.hasZh /\ OldEntry.zh # <<>> /\ ~OldEntry.hasEn
    /\ NewEntry.zh = OldEntry.zh /\ NewEntry.hasEn

\* C3: set-version(v) for a v that is no changelog key yet sets the version
\* field to v and adds exactly one entry keyed v, dated today, with empty zh
\* and en lists, keeping every prior entry; from a changelog holding only
\* "1.2.0", set-version("1.3.0") yields two entries, "1.3.0" first.
C3_NewVersionAdded ==
    (JsonWritten /\ ~HadEntry)
    => /\ versionFile.version = version
       /\ Len(versionFile.changelog) = Len(versionFile0.changelog) + 1
       /\ Keys(versionFile.changelog)
            = Keys(versionFile0.changelog) \cup {version}
       /\ NewEntry.hasDate /\ NewEntry.date = today
       /\ NewEntry.changes = "dict"
       /\ NewEntry.hasZh /\ NewEntry.zh = <<>>
       /\ NewEntry.hasEn /\ NewEntry.en = <<>>
       /\ OthersKept
       /\ (Keys(versionFile0.changelog) = {V120} /\ version = V130)
          => /\ Len(versionFile.changelog) = 2
             /\ versionFile.changelog[1].key = V130
             /\ versionFile.changelog[2].key = V120

\* the scenario: only "1.2.0" before, "1.3.0" set
C3_Witness ==
    /\ JsonWritten
    /\ Keys(versionFile0.changelog) = {V120}
    /\ version = V130
    /\ Len(versionFile.changelog) = 2

\* validate_version_str was reached, and whether it returned
ValidateReached == Resolved /\ pc \notin {"get_version", "validate"}
ValidateRejected == pc = "crashed" /\ err = "AssertionError"

\* C4 as stated: validation accepts exactly the strings matching
\* ^\d+(\.\d+)*$ and fails for every other input; every accepted string can
\* then be used as a changelog sort key without error.
C4_ValidationMatchesPattern ==
    ValidateReached
    => /\ ~ValidateRejected <=> DottedNumeric(version)
       /\ ~ValidateRejected => key_ok(version)

\* C5: with no version document, manifests that report different versions
\* make get_version fail with the consistency assertion and return nothing;
\* manifests that agree make it return the common version.
C5_ManifestFallback ==
    (/\ ~versionFile0.exists
     /\ \A b \in BrowserSet : manifest0[b].exists /\ manifest0[b].hasVersion
     /\ pc # "get_version")
    => IF \E a, b \in BrowserSet : manifest0[a].version # manifest0[b].version
       THEN pc = "crashed" /\ err = "AssertionError" /\ cur_version = NoneVal
       ELSE /\ err # "AssertionError"
            /\ \A b \in BrowserSet : cur_version = manifest0[b].version

\* the scenario: "1.0.0" and "1.0.1", no version document
C5_Witness ==
    /\ ~versionFile0.exists
    /\ manifest0["Chrome"].version = V100 /\ manifest0["Chrome"].hasVersion
    /\ manifest0["Firefox"].version = V101 /\ manifest0["Firefox"].hasVersion
    /\ pc = "crashed" /\ err = "AssertionError"

\* C6 as stated: after set-version every entry of the changelog has both
\* locale lists, whatever it had before.
C6_Original ==
    JsonWritten
    => \A i \in 1..Len(versionFile.changelog) :
          versionFile.changelog[i].hasZh /\ versionFile.changelog[i].hasEn

\* C6 amended: after set-version(v) the entry keyed v has both locale lists;
\* every other entry has a locale list exactly if it had it before, so all
\* entries have both lists if all had them before.
C6_LocaleListsOfSetVersion ==
    JsonWritten
    => /\ NewEntry.hasZh /\ NewEntry.hasEn
       /\ \A k \in Keys(versionFile0.changelog) \ {version} :
             /\ EntryOf(versionFile.changelog, k).hasZh
                  = EntryOf(versionFile0.changelog, k).hasZh
             /\ EntryOf(versionFile.changelog, k).hasEn
                  = EntryOf(versionFile0.changelog, k).hasEn
       /\ (\A i \in 1..Len(versionFile0.changelog) :
              versionFile0.changelog[i].hasZh /\ versionFile0.changelog[i].hasEn)
          => \A i \in 1..Len(versionFile.changelog) :
                versionFile.changelog[i].hasZh /\ versionFile.changelog[i].hasEn

\* the entry of the version being set had no locale lists and got both, next
\* to another entry
C6_Witness ==
    /\ JsonWritten /\ HadEntry
    /\ ~OldEntry.hasZh /\ ~OldEntry.hasEn
    /\ NewEntry.hasZh /\ NewEntry.hasEn
    /\ Len(versionFile.changelog) = 2

HasVersionTag(text, product) ==
    \E i \in 1..Len(text) : version_tag_end(text, i, product) # 0

\* C7 as stated: set-version rewrites, in each documentation file, every
\* '<product> (v<digits and dots>)' to '<product> (v<v>)' and leaves every
\* other character unchanged; a file without such a substring keeps its
\* content; an absent file is not created.
C7_ReadmeOnlyTagsRewritten ==
    ReadmesWritten
    => \A f \in ReadmeFiles :
          /\ readme[f].exists = readme0[f].exists
          /\ readme0[f].exists
             => /\ readme[f].content
                     = sub_version_from(readme0[f].content, 1,
                                        readme_product(f), version)
                /\ ~HasVersionTag(readme0[f].content, readme_product(f))
                   => readme[f].content = readme0[f].content

\* C8: after Builder construction and build_extensions succeeded, the
\* version document, every manifest, and the manifest and version document
\* copied into every staging directory carry self.version, and the other
\* manifest fields are unchanged.
C8_VersionsSynchronized ==
    pc = "done"
    => /\ versionFile.version = version
       /\ \A b \in BrowserSet :
             /\ manifest[b].exists /\ manifest[b].hasVersion
             /\ manifest[b].version = version
             /\ manifest[b].other = manifest0[b].other
             /\ <<"manifest.json">> \in dist[b].paths
             /\ <<"version.json">> \in dist[b].paths
             /\ dist[b].manifest.hasVersion
             /\ dist[b].manifest.version = version
             /\ dist[b].manifest.other = manifest0[b].other
             /\ dist[b].versionDoc.exists
             /\ dist[b].versionDoc.version = version

\* a build to a new version: the manifests reported another one before
C8_Witness ==
    /\ pc = "done"
    /\ version = V130
    /\ \A b \in BrowserSet : manifest0[b].version = V100
    /\ versionFile0.version = V120

\* build_extensions has ended, by returning or by an exception
BuildEnded == bix >= 1 /\ pc \in {"done", "crashed"}

Built(b) == dist[b].exists /\ <<"index.html">> \in dist[b].paths /\ zip[b]

\* C9 as stated: a target whose manifest is absent fails with an IOError,
\* gets no source files and no archive, and the other target is still built.
C9_Original ==
    BuildEnded
    => \A b \in BrowserSet :
          ~manifest0[b].exists
          => /\ err = "FileNotFoundError"
             /\ dist[b].paths = {} /\ ~zip[b]
             /\ \A o \in BrowserSet \ {b} : manifest0[o].exists => Built(o)

\* C9 amended: the first target in BROWSERS whose manifest is absent makes
\* build_extensions raise FileNotFoundError; that target gets an empty
\* staging directory and no archive, the targets after it are not built at
\* all, and the targets before it are built.
C9_MissingManifestAbortsBuild ==
    BuildEnded
    => \A i \in 1..Len(BROWSERS) :
          (/\ ~manifest0[BROWSERS[i]].exists
           /\ \A j \in 1..(i - 1) : manifest0[BROWSERS[j]].exists)
          => /\ pc = "crashed" /\ err = "FileNotFoundError" /\ bix = i
             /\ dist[BROWSERS[i]].exists
             /\ dist[BROWSERS[i]].paths = {} /\ ~zip[BROWSERS[i]]
             /\ \A j \in 1..(i - 1) : Built(BROWSERS[j])
             /\ \A j \in (i + 1)..Len(BROWSERS) :
                   ~dist[BROWSERS[j]].exists /\ ~zip[BROWSERS[j]]

\* Chrome's manifest is absent, Firefox's is present, and the build has ended
C9_Witness ==
    /\ BuildEnded
    /\ ~manifest0["Chrome"].exists /\ manifest0["Firefox"].exists
    /\ err = "FileNotFoundError" /\ ~zip["Firefox"]

\* the values of the font-family declarations of a text: the name after
\* "font-family:", any white space and an opening quote of either kind
FamilyValues(text) ==
    {text[k] : k \in {k \in 1..Len(text) :
        \E i \in 1..(k - 2) :
            /\ text[i] = "font-family" /\ text[i + 1] = ":"
            /\ text[k] \notin Whitespace \cup {DQ, SQ}
            /\ \A j \in (i + 2)..(k - 1) : text[j] \in Whitespace \cup {DQ, SQ}
            /\ Cardinality({j \in (i + 2)..(k - 1) : text[j] \in {DQ, SQ}}) <= 1}}

\* C10 as stated: with a family-rename override C, css2manifest returns a
\* manifest whose records all have family C and a patched stylesheet in
\* which every font-family value of every @font-face block is C, whatever
\* white space or quoting surrounds the declaration.
C10_RenameEverywhere ==
    (cpc = "returned" /\ font_family_rename # <<>>)
    => /\ \A i \in 1..Len(css_manifest) :
             css_manifest[i].family = font_family_rename
       /\ \A i \in 1..Len(findall_blocks(css_patched, 1)) :
             FamilyValues(findall_blocks(css_patched, 1)[i])
                \subseteq Range(font_family_rename)


\* the @font-face blocks of the patched stylesheet, in order
PatchedBlocks == findall_blocks(css_patched, 1)

\* positions of the size-adjust declarations of a block
SizeAdjustAt(block) ==
    {i \in 1..(Len(block) - 1) : block[i] = "size-adjust" /\ block[i + 1] = ":"}

\* the last token before position i that is no white space
TokenBefore(block, i) ==
    LET S == {k \in 1..(i - 1) : block[k] \notin Whitespace}
    IN  block[CHOOSE k \in S : \A m \in S : m <= k]

\* a separate declaration 'size-adjust:s;' stands at position i
WellFormedSizeAdjust(block, i, s) ==
    /\ TokenBefore(block, i) \in {"{", ";"}
    /\ i + 2 + Len(s) <= Len(block)
    /\ SubSeq(block, i + 2, i + 1 + Len(s)) = s
    /\ block[i + 2 + Len(s)] = ";"

\* a block with the value of each size-adjust declaration left out
RECURSIVE WithoutSizeAdjustValue(_)
WithoutSizeAdjustValue(block) ==
    IF SizeAdjustAt(block) = {} THEN block
    ELSE LET i == CHOOSE k \in SizeAdjustAt(block) :
                      \A m \in SizeAdjustAt(block) : k <= m
             e == MinOr0({k \in (i + 2)..Len(block) : block[k] \in {";", "}"}})
         IN  SubSeq(block, 1, i - 1) \o <<"size-adjust!">>
             \o WithoutSizeAdjustValue(SubSeq(block, e, Len(block)))

\* C11 as stated: with a size-adjust override s, a block that had no
\* size-adjust declaration gets exactly one well-formed 'size-adjust:s;' (also
\* after a last declaration without semicolon, also among identical blocks);
\* a block that had one still has exactly one, with value s, and differs from
\* its source in nothing but that value.
C11_SizeAdjustPatched ==
    (cpc = "returned" /\ size_adjust # <<>>)
    => /\ Len(PatchedBlocks) = Len(blocks)
       /\ \A i \in 1..Len(blocks) :
             LET p == PatchedBlocks[i]
                 at == SizeAdjustAt(p)
             IN  /\ Cardinality(at) = 1
                 /\ \A k \in at : WellFormedSizeAdjust(p, k, size_adjust)
                 /\ SizeAdjustAt(blocks[i]) # {}
                    => WithoutSizeAdjustValue(p)
                         = WithoutSizeAdjustValue(
                              patch_block(blocks[i], css_manifest[i],
                                          font_family_rename, <<>>))


\* the record the extraction of lines 58-90 gives for a patched block when
\* it is parsed again without overrides
Reparsed(i) == parse_block(PatchedBlocks[i], <<>>, <<>>)

\* C12 as stated: parsing the patched stylesheet again gives, block for block
\* and in the same order, the unicodeRange, fontWeight, fontStyle and
\* fontDisplay of the manifest returned for the original stylesheet; family
\* and sizeAdjust differ only when the corresponding override was given.
C12_RoundTrip ==
    cpc = "returned"
    => /\ Len(PatchedBlocks) = Len(css_manifest)
       /\ \A i \in 1..Len(css_manifest) :
             /\ Reparsed(i).unicodeRange = css_manifest[i].unicodeRange
             /\ Reparsed(i).fontWeight = css_manifest[i].fontWeight
             /\ Reparsed(i).fontStyle = css_manifest[i].fontStyle
             /\ Reparsed(i).fontDisplay = css_manifest[i].fontDisplay
             /\ font_family_rename = <<>>
                => Reparsed(i).family = css_manifest[i].family
             /\ size_adjust = <<>>
                => /\ Reparsed(i).hasSizeAdjust = css_manifest[i].hasSizeAdjust
                   /\ Reparsed(i).sizeAdjust = css_manifest[i].sizeAdjust


\* what the scan of a block finds for a property (lines 60-88)
Declares(block, prop) == decl_search(block, prop).found
DeclaredValue(block, prop) == str_strip(decl_search(block, prop).group)
ValueOrDefault(block, prop, default) ==
    IF Declares(block, prop) THEN DeclaredValue(block, prop) ELSE default

WeightStyleDisplayDefaults(i) ==
    /\ css_manifest[i].fontWeight
         = ValueOrDefault(blocks[i], "font-weight", <<"normal">>)
    /\ css_manifest[i].fontStyle
         = ValueOrDefault(blocks[i], "font-style", <<"normal">>)
    /\ css_manifest[i].fontDisplay
         = ValueOrDefault(blocks[i], "font-display", <<"swap">>)

C14_BestEffort ==
    cpc = "raised" => cerr \in {"ConnectionError", "FileNotFoundError"}


\* the remote stylesheet could not be obtained
FetchFailed == is_remote(css_url) /\ net \in {"down", "404"}

\* C15 as stated: whenever the remote stylesheet cannot be obtained
\* (connection failure or unsuccessful HTTP response), css2manifest raises the
\* fetch error: it returns no manifest or patched stylesheet, and
\* process_css_fonts writes no output stylesheet for the source.
C15_FetchErrorPropagates ==
    (FetchFailed /\ cpc \notin {"entry", "skipped", "fetch"})
    => cpc = "raised" /\ cerr = "ConnectionError"


\* the base location of a source: the URL or path up to its file name
BaseLocation(url) ==
    IF is_remote(url) THEN SubSeq(url, 1, Len(url) - 1)
    ELSE <<"./">> \o SubSeq(url, 1, Len(url) - 1)

\* the text the source holds, as read
RawCss == IF is_remote(css_url) THEN css_src ELSE read_text(css_src)

\* the text with every url("./ prefixed by the base location
PrefixedDouble(text) ==
    str_replace(text, 1, <<"url(", DQ, "./">>,
                <<"url(", DQ>> \o BaseLocation(css_url))
\* and every url('./ as well, with the opening quote q
PrefixedBoth(text, q) ==
    str_replace(PrefixedDouble(text), 1, <<"url(", SQ, "./">>,
                <<"url(", q>> \o BaseLocation(css_url))

\* C16 as stated: fetch_css prefixes every url("./...") by the base location
\* of the source (for a remote stylesheet the directory part of its URL,
\* whatever its file name; for a local one its directory relative to the
\* project root) and leaves every other URL unchanged (a url('./...') may be
\* left alone or prefixed).
C16_RelativeUrlsPrefixed ==
    cpc \in {"loop", "returned", "saved"}
    => css_text \in {PrefixedDouble(RawCss), PrefixedBoth(RawCss, SQ),
                     PrefixedBoth(RawCss, DQ)}


\* C17 as stated: subsetting a font that has no cmap table fails with an
\* error and writes no output font file, with the characters given (--chars)
\* and with the characters derived from the project files.
C17_NoCmapFails ==
    (fpc = "ended" /\ input_font.exists /\ ~input_font.hasCmap)
    => /\ fresult \in {"error printed", "exit(1)"}
       /\ ~output_font.exists


\* documentation files: README.md and its variants
IsReadme(name) == name \in {"README.md", "README_EN.md"}

\* C18 as stated: after package assembly a target's staging directory is
\* fresh (nothing of a prior staging tree survives) and holds, anywhere in
\* its tree, no deny-listed font file, nothing below client/app/debug and no
\* documentation file (README.md or another README variant), while it holds
\* index.html, version.json, help.json and the manifest at its root.
C18_StagingDirectoryClean ==
    pc = "done"
    => \A b \in BrowserSet :
          /\ dist[b].exists
          /\ \A p \in dist[b].paths :
                /\ p \in ProjectTree \cup {<<"manifest.json">>}
                /\ \A i \in 1..Len(p) : p[i] \notin files_to_exclude
                /\ ~IsPrefix(<<"client", "app", "debug">>, p)
                /\ ~IsReadme(p[Len(p)])
          /\ {<<"index.html">>, <<"version.json">>, <<"help.json">>,
              <<"manifest.json">>} \subseteq dist[b].paths


\* the run took the docker-only branch of main
ContainerOnly == ~args.all /\ ~args.extension /\ args.docker

Logged(message) == message \in Range(trace)

ContainerFailureLogged ==
    \/ Logged("[ERROR] Docker is not available")
    \/ Logged("[ERROR] Failed to set up buildx builder")
    \/ Logged("[ERROR] Docker build failed")

\* C19: a failed or unavailable container build ends the process with a
\* non-zero status exactly in a container-only run; in a combined run the
\* failure is logged and the run goes on to the deployment stage when
\* deployment is requested; an unavailable remote shell skips the deployment
\* and the run ends normally.
C19_ContainerFailureFatalOnlyAlone ==
    /\ docker_ok = "False"
       => /\ ContainerFailureLogged
          /\ pc # "crashed"
          /\ pc = "exited"
             => /\ exit_code = "1" <=> ContainerOnly
                /\ (args.all /\ args.deploy) => Logged("ssh test")
                /\ ContainerOnly => ~Logged("ssh test")
    /\ Logged("[ERROR] SSH is not available")
       => /\ ~Logged("ssh")
          /\ pc = "exited" /\ exit_code = "0"

\* a combined run whose container build failed went on to test the remote
\* shell, found it unavailable, and ended normally
C19_Witness ==
    /\ pc = "exited" /\ args.all /\ args.deploy
    /\ docker_ok = "False"
    /\ Logged("[ERROR] SSH is not available")
    /\ exit_code = "0"


\* C20 as stated: the composed remote command makes sure the container is
\* there before the purge script runs: whenever the container listing
\* reports no match the start command is executed, and the purge script is
\* executed only after the pull and the check/start step succeeded.
C20_ContainerEnsuredBeforePurge ==
    Logged("ssh")
    => /\ (remote.cd /\ remote.pull /\ remote.daemon /\ ~remote.container)
          => Logged("dctl")
       /\ Logged("docker exec purge-cache.sh")
          => /\ remote.cd /\ remote.pull
             /\ remote.daemon \/ (Logged("dctl") /\ remote.dctl)


-----------------------------------------------------------------------------
(* The order of the stages of a run of build.py *)

DockerEntries == {"docker info", "[ERROR] Docker is not available",
                  "buildx setup", "[ERROR] Failed to set up buildx builder",
                  "build --push latest", "build --push version",
                  "[ERROR] Docker build failed"}
DeployEntries == {"ssh test", "[ERROR] SSH is not available", "ssh", "cd",
                  "git pull", "docker ps", "dctl",
                  "docker exec purge-cache.sh", "Deployment failed"}

\* the stage a logged step belongs to: 3 font preprocessing, 4 packaging,
\* 5 container build, 6 deployment
StageOf(entry) ==
    IF entry = "process_css_fonts" THEN 3
    ELSE IF entry = "build_extensions" THEN 4
    ELSE IF entry \in DockerEntries THEN 5
    ELSE 6

\* update_version_in_files has returned: the document and the READMEs carry
\* the version of the run
VersionStageReturned ==
    /\ cur_version # NoneVal /\ version # NoneVal
    /\ validate_version_str(version)
    /\ versionFile.version = version
    /\ HasKey(versionFile.changelog, version)
    /\ \A f \in ReadmeFiles :
          readme[f].exists
          => readme[f].content = updated_readme(readme0[f].content,
                                     readme_product(f), version, linesep)

FontsStarted == pc = "css_fonts" \/ Logged("process_css_fonts")
PackagingStarted == pc = "build_extensions" \/ bix >= 1
PackagingReturned == Logged("build_extensions")
ContainerStarted ==
    \/ pc \in {"check_docker", "setup_buildx", "build_latest",
               "build_version", "docker_return"}
    \/ \E x \in DockerEntries : Logged(x)
ContainerReturned == docker_ok # "none"
DeployStarted ==
    \/ pc \in {"check_ssh", "run_deploy"}
    \/ \E x \in DeployEntries : Logged(x)

\* the target's manifest carries the version of the run
ManifestSynced(b) == manifest[b] = synced(manifest0[b], version)

\* the target's files are in its staging directory, the manifest among them
FilesCopied(b) ==
    /\ <<"manifest.json">> \in dist[b].paths
    /\ <<"index.html">> \in dist[b].paths
    /\ dist[b].manifest = manifest[b]

\* C21: the stages of a run execute in the order version resolution and
\* validation, update of the version document and READMEs, font
\* preprocessing, packaging, container build, deployment: a stage has
\* started only if every earlier stage the run includes has returned, and
\* within packaging a target's manifest is synchronized before its files are
\* copied, and its files are copied before it is archived.
C21_StagesInOrder ==
    /\ \A i, j \in 1..Len(trace) :
          i < j => StageOf(trace[i]) <= StageOf(trace[j])
    /\ (FontsStarted \/ PackagingStarted \/ ContainerStarted \/ DeployStarted)
       => VersionStageReturned
    /\ FontsStarted => with_defaults(args).all
    /\ pc = "css_fonts" => ~PackagingStarted /\ ~ContainerStarted /\ ~DeployStarted
    /\ PackagingStarted
       => /\ with_defaults(args).all => Logged("process_css_fonts")
          /\ ~PackagingReturned => ~ContainerStarted /\ ~DeployStarted
    /\ ContainerStarted
       => /\ with_defaults(args).all => PackagingReturned
          /\ ~ContainerReturned => ~DeployStarted
    /\ DeployStarted
       => /\ args.deploy
          /\ PackagingStarted => PackagingReturned
          /\ ContainerStarted => ContainerReturned
          /\ args.all => PackagingReturned /\ ContainerReturned
    /\ PackagingReturned
       => \A b \in BrowserSet : ManifestSynced(b) /\ FilesCopied(b) /\ zip[b]
    /\ \A b \in BrowserSet :
          /\ (pc \in {"copy_files", "create_zip"} /\ b = BROWSERS[bix])
             => ManifestSynced(b) /\ ~zip[b]
          /\ (pc = "copy_files" /\ b = BROWSERS[bix]) => dist[b].paths = {}
          /\ (pc = "create_zip" /\ b = BROWSERS[bix]) => FilesCopied(b)
          /\ zip[b] => ManifestSynced(b) /\ FilesCopied(b)

\* a default run went through font preprocessing, packaging, the container
\* build and the deployment command
C21_Witness ==
    /\ pc = "exited" /\ args.all /\ args.deploy
    /\ Logged("process_css_fonts") /\ PackagingReturned
    /\ docker_ok = "True" /\ Logged("docker exec purge-cache.sh")
    /\ \A b \in BrowserSet : zip[b]


\* the positions of a logged step
Positions(message) == {i \in 1..Len(trace) : trace[i] = message}

\* the build of the tag was run and did not fail
BuildSucceeded(tag) ==
    \E i \in Positions(tag) :
       ~(i < Len(trace) /\ trace[i + 1] = "[ERROR] Docker build failed")

\* C22: the container stage builds and pushes the tag latest and then the
\* tag of the version of the run, each at most once; build_docker returns
\* True only if both builds succeeded, and when the build of latest fails
\* the build of the version tag is not attempted.
C22_TwoTagsInOrder ==
    /\ Cardinality(Positions("build --push latest")) <= 1
    /\ Cardinality(Positions("build --push version")) <= 1
    /\ \A j \in Positions("build --push version") :
          j > 1 /\ trace[j - 1] = "build --push latest"
    /\ docker_ok = "True"
       <=> BuildSucceeded("build --push latest")
           /\ BuildSucceeded("build --push version")
    /\ (Logged("build --push latest") /\ ~BuildSucceeded("build --push latest"))
       => ~Logged("build --push version") /\ docker_ok = "False"
    /\ (Logged("build --push version") /\ ~BuildSucceeded("build --push version"))
       => docker_ok = "False"

\* both tags were built and pushed and build_docker returned True
C22_Witness ==
    /\ pc = "docker_return" /\ docker_ok = "True"
    /\ Logged("build --push latest") /\ Logged("build --push version")
    /\ ~Logged("[ERROR] Docker build failed")


\* the manifests are not all present with one common version
ManifestsUnusable ==
    \/ \E b \in BrowserSet : ~manifest0[b].exists \/ ~manifest0[b].hasVersion
    \/ \E a, b \in BrowserSet : manifest0[a].version # manifest0[b].version

\* the string Builder.__init__ validates when the document's version is the
\* current version
VersionToValidate ==
    IF version_arg # <<>> THEN version_arg ELSE versionFile0.version

\* C23: when the version document exists, get_version returns its version
\* field whatever the manifests hold: missing manifests, manifests without a
\* version and manifests that disagree with each other or with the document
\* raise nothing before packaging starts and do not change the result.
C23_DocumentTakesPrecedence ==
    (versionFile0.exists /\ pc # "get_version")
    => /\ cur_version = versionFile0.version
       /\ bix = 0 => err \notin {"FileNotFoundError", "KeyError"}
       /\ err = "AssertionError" => ~validate_version_str(VersionToValidate)

\* the document says 1.2.0, one manifest says 1.0.0 and the other is missing
\* or says 1.0.1: the version resolved is 1.2.0
C23_Witness ==
    /\ versionFile0.exists /\ versionFile0.version = V120
    /\ manifest0["Chrome"].hasVersion /\ manifest0["Chrome"].version = V100
    /\ ~manifest0["Firefox"].exists
       \/ manifest0["Firefox"].version = V101
    /\ pc = "validate" /\ cur_version = V120 /\ err = "none"


\* the version document, the READMEs and the manifests are as the run found
\* them
FilesUntouched ==
    versionFile = versionFile0 /\ readme = readme0 /\ manifest = manifest0

\* C24: when the version to apply is not a dotted-numeric string the
\* construction of the Builder fails and no file is written: the version
\* document, both READMEs and the manifests keep their content; and when
\* _update_version_json fails in the sort because a changelog key is not
\* dotted-numeric, the version document is unchanged.
C24_FailureWritesNothing ==
    /\ (ValidateReached /\ ~DottedNumeric(version))
       => /\ pc \in {"update_json", "crashed"}
          /\ bix = 0
          /\ FilesUntouched
    /\ (pc = "crashed" /\ err = "ValueError")
       => /\ \E k \in Keys(versionFile0.changelog) \cup {version} : ~key_ok(k)
          /\ FilesUntouched

\* the version given on the command line is rejected by the validation
C24_Witness ==
    /\ version_arg # <<>> /\ ~DottedNumeric(version_arg)
    /\ version = version_arg
    /\ pc = "crashed" /\ err = "AssertionError"
    /\ FilesUntouched

\* a valid version meets a changelog key that is not numeric: the sort fails
C24_SortFailureReached ==
    /\ DottedNumeric(version)
    /\ \E k \in Keys(versionFile0.changelog) : ~key_ok(k)
    /\ pc = "crashed" /\ err = "ValueError"


SecondApplication == trace = <<"set-version again">>

\* C25: set-version is idempotent: a second application of the same version
\* on the same date succeeds and leaves the version document and the README
\* files exactly as the first application left them: no entry is added,
\* none is reordered and no date changes.
C25_SetVersionIdempotent ==
    SecondApplication
    => /\ pc # "crashed"
       /\ pc \notin {"get_version", "validate"} => version = version_arg
       /\ pc \in {"update_readme", "dispatch"} => versionFile = versionFile0
       /\ pc = "dispatch" => readme = readme0

\* the second application has returned; the first one had added or
\* completed an entry, moved entries or rewritten README text
C25_Witness ==
    /\ SecondApplication /\ pc = "dispatch"
    /\ Len(versionFile.changelog) = 2
    /\ versionFile.changelog[1].key = version
    /\ key_tuple(versionFile.changelog[2].key) = key_tuple(version)


\* the values of the size-adjust declarations of a block: the text between
\* the colon and the next semicolon or closing brace, without white space
SizeAdjustValues(block) ==
    {LET e == MinOr0({k \in (i + 2)..Len(block) : block[k] \in {";", "}"}})
     IN  remove_spaces(str_strip(SubSeq(block, i + 2, e - 1)))
     : i \in SizeAdjustAt(block)}

\* C26 as stated: the manifest and the patched stylesheet of one call agree:
\* block for block, a record's sizeAdjust is the value of the size-adjust
\* declaration of the patched block and the record's family is the
\* font-family value of the patched block, also when the declaration has no
\* trailing semicolon or has white space after the colon (blocks with
\* single-quoted values are left aside).
C26_ManifestAgreesWithStylesheet ==
    cpc = "returned"
    => \A i \in 1..Len(css_manifest) :
          (i <= Len(PatchedBlocks) /\ SQ \notin Range(PatchedBlocks[i]))
          => /\ css_manifest[i].hasSizeAdjust
                => SizeAdjustValues(PatchedBlocks[i])
                     = {css_manifest[i].sizeAdjust}
             /\ FamilyValues(PatchedBlocks[i])
                  \subseteq Range(css_manifest[i].family)


\* no build kind is given on the command line
NoBuildKind == ~(args.docker \/ args.extension \/ args.all)

\* main has chosen its branch
Dispatched ==
    pc \notin {"get_version", "validate", "update_json", "update_readme",
               "dispatch", "crashed"}
    \/ (pc = "crashed" /\ (bix >= 1 \/ trace # <<>>))

\* the step of main that applies the defaults and chooses the branch
DispatchStep ==
    pc = "dispatch"
    => /\ args' = IF NoBuildKind THEN Args(FALSE, FALSE, TRUE, TRUE) ELSE args
       /\ pc' = IF NoBuildKind \/ args.all THEN "css_fonts"
                ELSE IF args.extension THEN "build_extensions"
                ELSE "check_docker"

\* what has run agrees with the branch chosen, and the deployment runs
\* exactly when requested and the process is still running
BranchRuns ==
    Dispatched
    => /\ ~NoBuildKind
       /\ (~args.all /\ args.extension)
          => ~FontsStarted /\ ~ContainerStarted
       /\ (~args.all /\ ~args.extension)
          => ~FontsStarted /\ ~PackagingStarted
       /\ DeployStarted => args.deploy /\ exit_code # "1"
       /\ pc = "crashed" => ~DeployStarted /\ exit_code = "none"
       /\ exit_code = "1" => ~DeployStarted /\ ContainerOnly
       /\ (pc = "exited" /\ exit_code = "0")
          => /\ args.deploy <=> Logged("ssh test")
             /\ args.all => Logged("process_css_fonts") /\ PackagingReturned
                            /\ ContainerReturned
             /\ (~args.all /\ args.extension) => PackagingReturned
             /\ (~args.all /\ ~args.extension) => ContainerReturned

\* C27: with none of -d, -e, -a the run behaves as -a -p; otherwise one
\* build branch runs, chosen with precedence all, then extension, then
\* docker, so that -e -d never runs the container build; the deployment runs
\* exactly when it was requested or defaulted and the process has not ended
\* before.
C27_DispatchPrecedence == [][DispatchStep]_vars /\ []BranchRuns

\* -e -d: the run ended after packaging, without a container build
C27_Witness ==
    /\ pc = "exited" /\ exit_code = "0"
    /\ args.extension /\ args.docker /\ ~args.all
    /\ PackagingReturned /\ ~ContainerStarted

=============================================================================
